---- MODULE Spec2Model ----
(***************************************************************************)
(* The tool bridge of open-codemode: the connection manager (WsServer),    *)
(* the external tool registry (WsToolRegistry), the RPC entry point        *)
(* callTool (ToolBridge.handleToolCall / handleWsToolCall) and the         *)
(* life cycle of a pending callback (PendingWsToolCall).                   *)
(*                                                                         *)
(* The host is single threaded: every action below is one synchronous      *)
(* run of a handler, from its entry to its first suspension point, with    *)
(* the promise continuations (microtasks) that its settlements release.    *)
(* Strings are sequences of one-character strings, so that startsWith,     *)
(* concatenation and cleanupVariableName are computed, not assumed.        *)
(***************************************************************************)
EXTENDS Integers, Sequences, FiniteSets, TLC

VARIABLES
    wsConfigured,         \* ToolBridge.wsToolRegistry / getWebSocket are set
    connections,          \* WsServer.connections: connection id -> socket
    connectionIdCounter,  \* WsServer.connectionIdCounter
    sockets,              \* the WebSocket objects, in order of creation, each with the
                          \* descriptors its register_tools messages registered
    toolsByConnection,    \* WsToolRegistry.toolsByConnection
    toolsByRef,           \* WsToolRegistry.toolsByRef
    wsPendingCalls,       \* ToolBridge.wsPendingCalls: call id -> entry
    wsCallCounter,        \* ToolBridge.wsCallCounter
    calls,                \* one closure of handleWsToolCall per registered call
    sandboxes,            \* owners of the sandbox subprocesses now running
    runs,                 \* the calls of CodeExecutionEngine.runInSandbox in progress
    mcpRegistry,          \* the McpRegistry: its three indexes and its clients, with
                          \* the server configs it is created from
    returned              \* what the step just taken produced: the callTool response,
                          \* the messages WsServer.send wrote to sockets, and the
                          \* call of runInSandbox that returned

vars == << wsConfigured, connections, connectionIdCounter, sockets,
           toolsByConnection, toolsByRef, wsPendingCalls, wsCallCounter,
           calls, sandboxes, runs, mcpRegistry, returned >>

----------------------------------------------------------------------------
(* Bounds of the model *)

\* connections opened + calls registered + entries of the tool registry
\* + calls of runInSandbox in progress
MaxLoad == 4

\* sandbox subprocesses running at a time
MaxSandboxes == 1

\* calls of runInSandbox in progress at a time
MaxRuns == 1

\* Date.now() at an allocation; one value: every id is made in the same millisecond
TimeStamps == {0}

----------------------------------------------------------------------------
(* Strings *)

S_main == << "m", "a", "i", "n", "_" >>
S_ws == << "w", "s", "_" >>
S_wscall == << "w", "s", "c", "a", "l", "l", "_" >>
S_http == << "h", "t", "t", "p" >>
Digits == << "0", "1", "2", "3", "4", "5", "6", "7", "8", "9" >>
Letters ==
    { "a", "b", "c", "d", "e", "f", "g", "h", "i", "j", "k", "l", "m", "n",
      "o", "p", "q", "r", "s", "t", "u", "v", "w", "x", "y", "z" }
    \cup { "A", "B", "C", "D", "E", "F", "G", "H", "I", "J", "K", "L", "M", "N",
           "O", "P", "Q", "R", "S", "T", "U", "V", "W", "X", "Y", "Z" }
IdentChars == Letters \cup { Digits[i] : i \in 1..10 } \cup { "_" }

\* A formatting that loses the number
NumStr_Zero(n) == << "0" >>

RECURSIVE NumStr(_)
NumStr(n) == IF n < 10 THEN << Digits[n + 1] >>
             ELSE NumStr(n \div 10) \o << Digits[(n % 10) + 1] >>

StartsWith(s, p) == Len(s) >= Len(p) /\ SubSeq(s, 1, Len(p)) = p

RECURSIVE TrimLeft(_)
TrimLeft(s) == IF s # << >> /\ Head(s) = " " THEN TrimLeft(Tail(s)) ELSE s

RECURSIVE TrimRight(_)
TrimRight(s) ==
    IF s # << >> /\ s[Len(s)] = " " THEN TrimRight(SubSeq(s, 1, Len(s) - 1)) ELSE s

\* .replace(/[^a-zA-Z0-9_]/g, "_")
ReplaceInvalid(s) == [i \in 1..Len(s) |-> IF s[i] \in IdentChars THEN s[i] ELSE "_"]

\* .replace(/_+/g, "_")
RECURSIVE CollapseUnderscores(_)
CollapseUnderscores(s) ==
    IF Len(s) < 2 THEN s
    ELSE IF s[1] = "_" /\ s[2] = "_" THEN CollapseUnderscores(Tail(s))
    ELSE << s[1] >> \o CollapseUnderscores(Tail(s))

\* .replace(/^_|_$/g, "")
StripEnds(s) ==
    LET a == IF s # << >> /\ Head(s) = "_" THEN Tail(s) ELSE s
    IN  IF a # << >> /\ a[Len(a)] = "_" THEN SubSeq(a, 1, Len(a) - 1) ELSE a

cleanupVariableName(name) ==
    StripEnds(CollapseUnderscores(ReplaceInvalid(TrimRight(TrimLeft(name)))))

----------------------------------------------------------------------------
(* Finite maps (JavaScript Map) *)

MapSet(m, k, v) == [x \in DOMAIN m \cup {k} |-> IF x = k THEN v ELSE m[x]]
MapDelete(m, k) == [x \in DOMAIN m \ {k} |-> m[x]]
EmptyMap == [x \in {} |-> x]

----------------------------------------------------------------------------
(* Schemas, arguments and guards *)

\* A JSON schema of an object: the keys it requires.  "invalid" is a schema
\* Ajv refuses to compile; "none" is a descriptor without inputSchema.
ObjectSchema(req) == [kind |-> "object", required |-> req]
NoSchema == [kind |-> "none", required |-> {}]
BadSchema == [kind |-> "invalid", required |-> {}]
OpenSchema == ObjectSchema({})

\* tool.inputSchema || { type: "object", properties: {}, additionalProperties: true }
DefaultedSchema(schema) == IF schema.kind = "none" THEN OpenSchema ELSE schema

\* ajv.compile(schema) throws on a schema it cannot compile
CompileThrows(schema) == schema.kind = "invalid"

\* The compiled guard: validate(value) of an object against required keys
schemaToTypeGuard(schema, value) == schema.required \subseteq value

\* The args of a callTool request: absent, or an object with the given keys
NoArgs == [defined |-> FALSE, keys |-> {}]
Args(keys) == [defined |-> TRUE, keys |-> keys]
ArgValues == { NoArgs, Args({"a", "b"}) }

\* const { toolRef, args = {} } = request
ArgsOrDefault(argsIn) == IF argsIn.defined THEN argsIn.keys ELSE {}

----------------------------------------------------------------------------
(* The MCP tools the bridge is constructed with *)

N_run == << "r", "u", "n" >>
N_search == << "s", "e", "a", "r", "c", "h" >>
N_main_x == << "m", "a", "i", "n", "_", "x" >>
N_add == << "a", "d", "d" >>
Dot == << "." >>

\* The servers of mcp_config.json with the tools each lists
McpServers ==
    { [name |-> N_search, tools |-> { [name |-> N_run, inputSchema |-> ObjectSchema({"a"})] }],
      [name |-> N_main_x, tools |-> { [name |-> N_run, inputSchema |-> ObjectSchema({"a"})] }] }

\* McpRegistry.introspectServer: one definition per tool of a server
McpToolDefinitions ==
    UNION { { [ referenceName |->
                    cleanupVariableName(s.name) \o Dot \o cleanupVariableName(t.name),
                serverName |-> s.name,
                toolName |-> t.name,
                inputSchema |-> DefaultedSchema(t.inputSchema) ] : t \in s.tools }
            : s \in McpServers }

\* ToolBridge constructor: this.mcpTools.set(mcpTool.referenceName, registration)
mcpTools ==
    [ r \in { d.referenceName : d \in McpToolDefinitions } |->
        CHOOSE d \in McpToolDefinitions : d.referenceName = r ]

----------------------------------------------------------------------------
(* WsToolRegistry *)

\* One namespace for every connection
generateNamespace_Shared(connectionId) == S_main \o S_ws

generateNamespace(connectionId) == S_main \o connectionId

\* The body of the loop of registerTools for one descriptor
WsToolDefinition(connectionId, tool) ==
    [ connectionId |-> connectionId,
      namespace |-> generateNamespace(connectionId),
      referenceName |->
          generateNamespace(connectionId) \o Dot \o cleanupVariableName(tool.name),
      toolName |-> tool.name,
      cleanToolName |-> cleanupVariableName(tool.name),
      inputSchema |-> DefaultedSchema(tool.inputSchema) ]

\* registerTools: the loop stores each definition by reference name; a schema
\* that does not compile throws out of the loop, before the per-connection
\* list is written.  reg is [byConn, byRef, threw].
RECURSIVE RegisterLoop(_, _, _, _)
RegisterLoop(byRef, connectionId, tools, done) ==
    IF tools = << >> THEN [byRef |-> byRef, registered |-> done, threw |-> FALSE]
    ELSE IF CompileThrows(DefaultedSchema(Head(tools).inputSchema))
         THEN [byRef |-> byRef, registered |-> done, threw |-> TRUE]
    ELSE LET wsTool == WsToolDefinition(connectionId, Head(tools))
         IN  RegisterLoop(MapSet(byRef, wsTool.referenceName, wsTool), connectionId,
                          Tail(tools), Append(done, wsTool))

\* A registration that replaces the list of the connection
registerTools_Replace(byConn, byRef, connectionId, tools) ==
    LET loop == RegisterLoop(byRef, connectionId, tools, << >>)
    IN  [ byRef |-> loop.byRef,
          byConn |-> IF loop.threw THEN byConn
                     ELSE MapSet(byConn, connectionId, loop.registered),
          registered |-> loop.registered,
          threw |-> loop.threw ]

registerTools(byConn, byRef, connectionId, tools) ==
    LET loop == RegisterLoop(byRef, connectionId, tools, << >>)
        existingTools == IF connectionId \in DOMAIN byConn THEN byConn[connectionId] ELSE << >>
    IN  [ byRef |-> loop.byRef,
          byConn |-> IF loop.threw THEN byConn
                     ELSE MapSet(byConn, connectionId, existingTools \o loop.registered),
          registered |-> loop.registered,
          threw |-> loop.threw ]

RECURSIVE DeleteRefs(_, _)
DeleteRefs(byRef, wsTools) ==
    IF wsTools = << >> THEN byRef
    ELSE DeleteRefs(MapDelete(byRef, Head(wsTools).referenceName), Tail(wsTools))

unregisterConnection(byConn, byRef, connectionId) ==
    [ byRef |-> IF connectionId \in DOMAIN byConn
                THEN DeleteRefs(byRef, byConn[connectionId]) ELSE byRef,
      byConn |-> MapDelete(byConn, connectionId) ]

\* A lookup that ignores whose list it returns
getToolsForConnection_Any(byConn, connectionId) ==
    IF DOMAIN byConn = {} THEN << >> ELSE byConn[CHOOSE c \in DOMAIN byConn : TRUE]

getToolsForConnection(byConn, connectionId) ==
    IF connectionId \in DOMAIN byConn THEN byConn[connectionId] ELSE << >>

\* The descriptor lists a register_tools message may carry
AddTool == [name |-> N_add, inputSchema |-> ObjectSchema({"a", "b"})]
BadTool == [name |-> N_run, inputSchema |-> BadSchema]
DescriptorLists == { << AddTool >>, << AddTool, BadTool >> }

----------------------------------------------------------------------------
(* McpRegistry *)

\* servers listed in one mcp_config.json
MaxServers == 2

RunTool == [name |-> N_run, inputSchema |-> ObjectSchema({"a"})]
N_db == << "d", "b" >>

\* A server of mcp_config.json as the registry meets it: its name, whether
\* connect() and listTools() throw, and the tools listTools() returns
ServerConfig(name, connect, list, tools) ==
    [name |-> name, connect |-> connect, list |-> list, tools |-> tools]
ServerConfigs ==
    { ServerConfig(N_search, "ok", "ok", << RunTool, AddTool >>),
      ServerConfig(N_main_x, "ok", "ok", << RunTool >>),
      ServerConfig(N_db, "throws", "ok", << RunTool >>),
      ServerConfig(N_db, "ok", "throws", << RunTool >>),
      ServerConfig(N_db, "ok", "ok", << AddTool, BadTool, RunTool >>) }

RECURSIVE SeqsUpTo(_, _)
SeqsUpTo(S, n) ==
    IF n = 0 THEN { << >> }
    ELSE LET shorter == SeqsUpTo(S, n - 1)
         IN  shorter \cup { Append(q, x) : q \in shorter, x \in S }

\* new McpRegistry(): nothing introspected yet.  next is the position of
\* create in its loop; disconnectCalls is the history of client.disconnect()
\* and disconnectThrew the clients whose disconnect() threw.
NewRegistry(serverConfigs) ==
    [ configs |-> serverConfigs, next |-> 1,
      pc |-> IF serverConfigs = << >> THEN "ready" ELSE "creating",
      tools |-> << >>, toolsByRef |-> EmptyMap, toolsByServer |-> EmptyMap,
      clients |-> {}, connected |-> {}, disconnectCalls |-> {},
      disconnectThrew |-> {} ]

\* The body of the loop of introspectServer for one tool
McpToolDefinition(serverConfig, tool) ==
    [ referenceName |-> cleanupVariableName(serverConfig.name) \o Dot
                           \o cleanupVariableName(tool.name),
      serverName |-> serverConfig.name,
      cleanServerName |-> cleanupVariableName(serverConfig.name),
      toolName |-> tool.name,
      cleanToolName |-> cleanupVariableName(tool.name),
      inputSchema |-> DefaultedSchema(tool.inputSchema) ]

\* The loop of introspectServer: each definition is pushed to the three
\* indexes as it is built; schemaToTypeGuard throws out of the loop
RECURSIVE IntrospectLoop(_, _, _)
IntrospectLoop(reg, serverConfig, tools) ==
    IF tools = << >> THEN reg
    ELSE IF CompileThrows(DefaultedSchema(Head(tools).inputSchema)) THEN reg
    ELSE LET mcpTool == McpToolDefinition(serverConfig, Head(tools))
             server == mcpTool.cleanServerName
             listed == IF server \in DOMAIN reg.toolsByServer
                       THEN reg.toolsByServer[server] ELSE << >>
         IN  IntrospectLoop(
                 [reg EXCEPT !.tools = Append(@, mcpTool),
                             !.toolsByRef = MapSet(@, mcpTool.referenceName, mcpTool),
                             !.toolsByServer = MapSet(@, server, Append(listed, mcpTool))],
                 serverConfig, Tail(tools))

\* introspectServer of the i-th config: whatever throws is logged in the catch
introspectServer(reg, i) ==
    LET serverConfig == reg.configs[i]
    IN  IF serverConfig.connect = "throws" THEN reg
        ELSE LET joined == [reg EXCEPT !.clients = @ \cup {i}, !.connected = @ \cup {i}]
             IN  IF serverConfig.list = "throws" THEN joined
                 ELSE IntrospectLoop(joined, serverConfig, serverConfig.tools)

\* One turn of the loop of McpRegistry.create; it returns after the last
createStep(reg) ==
    LET done == introspectServer(reg, reg.next)
    IN  [done EXCEPT !.next = @ + 1,
                     !.pc = IF reg.next = Len(reg.configs) THEN "ready" ELSE "creating"]

RECURSIVE createFrom(_)
createFrom(reg) == IF reg.next > Len(reg.configs) THEN [reg EXCEPT !.pc = "ready"]
                   ELSE createFrom(createStep(reg))

\* McpRegistry.create(serverConfigs)
create(serverConfigs) == createFrom(NewRegistry(serverConfigs))

\* The clients of the Set in the order they were added
RECURSIVE InsertionOrder(_)
InsertionOrder(clients) ==
    IF clients = {} THEN << >>
    ELSE LET first == CHOOSE c \in clients : \A d \in clients : c <= d
         IN  << first >> \o InsertionOrder(clients \ {first})

\* The loop of McpRegistry.disconnect.  McpClient.disconnect of a connected
\* client calls client.close() and, in its finally, marks the client as not
\* connected even when close() throws; the throw is caught and logged here.
RECURSIVE DisconnectLoop(_, _, _)
DisconnectLoop(reg, clients, throwing) ==
    IF clients = << >> THEN reg
    ELSE LET client == Head(clients)
             attempted ==
                 [reg EXCEPT !.disconnectCalls = @ \cup {client},
                             !.connected = @ \ {client},
                             !.disconnectThrew =
                                 IF client \in throwing THEN @ \cup {client} ELSE @]
         IN  DisconnectLoop(attempted, Tail(clients), throwing)

\* McpRegistry.disconnect without the try/catch around client.disconnect():
\* the first throw leaves the loop and the method
disconnect_Uncaught(reg, throwing) ==
    LET thrown == reg.clients \cap throwing
        upTo == IF thrown = {} THEN reg.clients
                ELSE { c \in reg.clients : \A t \in thrown : c <= t }
        left == DisconnectLoop(reg, InsertionOrder(upTo), throwing)
    IN  IF thrown = {}
        THEN [left EXCEPT !.clients = {}, !.tools = << >>, !.toolsByRef = EmptyMap,
                          !.toolsByServer = EmptyMap, !.pc = "closed"]
        ELSE [left EXCEPT !.pc = "closed"]

\* McpRegistry.disconnect(); throwing are the clients whose close() throws
disconnect(reg, throwing) ==
    LET left == DisconnectLoop(reg, InsertionOrder(reg.clients), throwing)
    IN  [left EXCEPT !.clients = {}, !.tools = << >>, !.toolsByRef = EmptyMap,
                     !.toolsByServer = EmptyMap, !.pc = "closed"]

\* The servers behind the tools of the bridge
BridgeConfigs ==
    << ServerConfig(N_search, "ok", "ok", << RunTool >>),
       ServerConfig(N_main_x, "ok", "ok", << RunTool >>) >>

----------------------------------------------------------------------------
(* Responses, errors and promises *)

Success(data) == [success |-> TRUE, data |-> data, error |-> "-"]
Failure(message) == [success |-> FALSE, data |-> "-", error |-> message]
NoReturn == [success |-> FALSE, data |-> "-", error |-> "-"]

E_McpNotFound == "Tool not found"
E_McpInvalid == "Type validation failed for tool"
E_McpThrew == "Error calling tool"
E_NotConfigured == "WebSocket tools not configured"
E_WsNotFound == "WebSocket tool not found"
E_WsInvalid == "Invalid arguments for"
E_Unavailable == "WebSocket connection unavailable for"
E_Timeout == "Timeout calling WebSocket tool"
E_Closed == "WebSocket closed while calling tool"
E_Error == "WebSocket error while calling tool"
E_Cancelled == "Connection closed"
E_SendFailed == "Failed to send tool call"

\* The payloads of a tool_result message: a result, or an error text
ResultPayloads == { [error |-> "", result |-> "r1"], [error |-> "boom", result |-> "-"] }

\* resolve(value) / reject(error) of the promise awaited by handleWsToolCall,
\* with the continuation after the await (lines 224-233): a promise takes the
\* first settlement only, and handleWsToolCall returns when it is taken.
PromiseSettle(c, fn, value) ==
    IF c.promise # "pending" THEN [c EXCEPT !.fnCalls = @ + 1]
    ELSE [c EXCEPT !.fnCalls = @ + 1,
                   !.promise = IF fn = "resolve" THEN "fulfilled" ELSE "rejected",
                   !.value = value,
                   !.returns = @ + 1,
                   !.response = IF fn = "resolve" THEN Success(value) ELSE Failure(value)]

----------------------------------------------------------------------------
(* The closure of one pending call: cleanup, settle, and the bridge's      *)
(* resolveWsToolCall and cancelWsCallsForConnection.  st is the pair       *)
(* [calls, pend] of the closures and the pending map.                      *)

\* clearTimeout(timeoutId)
ClearTimeout(cs, n) == [cs EXCEPT ![n].timer = FALSE]

\* A cleanup that only clears the timer: the settled flag is never set and
\* the close and error listeners stay on the socket
cleanup_TimerOnly(c) == [c EXCEPT !.timer = FALSE]

\* A cleanup that forgets removeEventListener
cleanup_KeepListeners(c) == [c EXCEPT !.settled = TRUE, !.timer = FALSE]

cleanup(c) ==
    [c EXCEPT !.settled = TRUE, !.timer = FALSE, !.onClose = FALSE, !.onError = FALSE]

\* A settle that forgets this.wsPendingCalls.delete(callId)
settle_NoDelete(st, n, fn, value) ==
    IF st.calls[n].settled THEN st
    ELSE [st EXCEPT !.calls[n] = PromiseSettle(cleanup(st.calls[n]), fn, value)]

settle(st, n, fn, value) ==
    IF st.calls[n].settled THEN st
    ELSE [ calls |-> [st.calls EXCEPT ![n] = PromiseSettle(cleanup(st.calls[n]), fn, value)],
           pend |-> MapDelete(st.pend, st.calls[n].callId) ]

\* A resolveWsToolCall that clears the timer and the entry and forgets to
\* call pending.resolve / pending.reject
resolveWsToolCall_ClearOnly(st, callId, result, error) ==
    IF callId \notin DOMAIN st.pend THEN st
    ELSE [ calls |-> ClearTimeout(st.calls, st.pend[callId].call),
           pend |-> MapDelete(st.pend, callId) ]

resolveWsToolCall(st, callId, result, error) ==
    IF callId \notin DOMAIN st.pend THEN st
    ELSE LET pending == st.pend[callId]
             st1 == [ calls |-> ClearTimeout(st.calls, pending.call),
                      pend |-> MapDelete(st.pend, callId) ]
         IN  IF error # "" THEN settle(st1, pending.call, "reject", error)
             ELSE settle(st1, pending.call, "resolve", result)

\* The entries of the pending map in insertion order
PendingOrder(pend) ==
    LET RECURSIVE Sorted(_)
        Sorted(ids) ==
            IF ids = {} THEN << >>
            ELSE LET k == CHOOSE x \in ids : \A y \in ids : pend[x].call <= pend[y].call
                 IN  << k >> \o Sorted(ids \ {k})
    IN  Sorted(DOMAIN pend)

RECURSIVE CancelLoop(_, _, _)
CancelLoop(st, ids, connectionId) ==
    IF ids = << >> THEN st
    ELSE LET callId == Head(ids)
         IN  IF callId \in DOMAIN st.pend /\ st.pend[callId].connectionId = connectionId
             THEN LET pending == st.pend[callId]
                      st1 == [st EXCEPT !.calls = ClearTimeout(st.calls, pending.call)]
                      st2 == settle(st1, pending.call, "reject", E_Cancelled)
                  IN  CancelLoop([st2 EXCEPT !.pend = MapDelete(st2.pend, callId)],
                                 Tail(ids), connectionId)
             ELSE CancelLoop(st, Tail(ids), connectionId)

\* A cancellation that does not compare pending.connectionId
cancelWsCallsForConnection_All(st, connectionId) ==
    LET RECURSIVE Loop(_, _)
        Loop(acc, ids) ==
            IF ids = << >> THEN acc
            ELSE LET pending == acc.pend[Head(ids)]
                     st1 == [acc EXCEPT !.calls = ClearTimeout(acc.calls, pending.call)]
                 IN  Loop(settle(st1, pending.call, "reject", E_Cancelled), Tail(ids))
    IN  Loop(st, PendingOrder(st.pend))

cancelWsCallsForConnection(st, connectionId) ==
    CancelLoop(st, PendingOrder(st.pend), connectionId)

\* A dispatch that stops after the first listener it ran
RunListeners_First(st, n, ws, kind) ==
    LET attached == { k \in n..Len(st.calls) :
                          /\ st.calls[k].ws = ws
                          /\ IF kind = "close" THEN st.calls[k].onClose
                             ELSE st.calls[k].onError }
    IN  IF attached = {} THEN st
        ELSE settle(st, CHOOSE k \in attached : \A l \in attached : k <= l, "reject",
                    IF kind = "close" THEN E_Closed ELSE E_Error)

\* The listeners of kind "close" or "error" that calls attached to socket ws,
\* run in the order they were added; a listener removed meanwhile is skipped.
RECURSIVE RunListeners(_, _, _, _)
RunListeners(st, n, ws, kind) ==
    IF n > Len(st.calls) THEN st
    ELSE LET c == st.calls[n]
             attached == c.ws = ws /\ (IF kind = "close" THEN c.onClose ELSE c.onError)
             st1 == IF attached
                    THEN settle(st, n, "reject", IF kind = "close" THEN E_Closed ELSE E_Error)
                    ELSE st
         IN  RunListeners(st1, n + 1, ws, kind)

----------------------------------------------------------------------------
(* ToolBridge.handleToolCall and handleWsToolCall *)

\* WS_CONFIG.TOOL_CALL_TIMEOUT_MS
TOOL_CALL_TIMEOUT_MS == 60000

\* The texts of the content blocks.  A text is a string, so that the data of
\* a response stays a string; Characters spells it for the operations on it.
Characters ==
    " ok " :> << " ", "o", "k", " " >> @@ "ok" :> << "o", "k" >>
    @@ "42" :> << "4", "2" >>
    @@ " {} " :> << " ", "{", "}", " " >> @@ "{}" :> << "{", "}" >>
    @@ "[7]" :> << "[", "7", "]" >>
    @@ "{x}" :> << "{", "x", "}" >>
    @@ "true" :> << "t", "r", "u", "e" >>
Texts == DOMAIN Characters
Spelled(chars) == CHOOSE t \in Texts : Characters[t] = chars

\* text.trim()
Trim(text) == Spelled(TrimRight(TrimLeft(Characters[text])))

EndsWith(s, q) == Len(s) >= Len(q) /\ SubSeq(s, Len(s) - Len(q) + 1, Len(s)) = q

\* Whether JSON.parse accepts the characters, for the part of the JSON
\* grammar the texts use: literals, integers, the empty object, arrays
RECURSIVE IsJson(_)
IsJson(chars) ==
    \/ chars \in { << "t", "r", "u", "e" >>, << "f", "a", "l", "s", "e" >>,
                   << "n", "u", "l", "l" >> }
    \/ /\ chars # << >>
       /\ \A k \in 1..Len(chars) : \E d \in 1..10 : chars[k] = Digits[d]
       /\ (Len(chars) = 1 \/ chars[1] # "0")
    \/ chars = << "{", "}" >>
    \/ /\ Len(chars) >= 2
       /\ chars[1] = "[" /\ chars[Len(chars)] = "]"
       /\ (Len(chars) = 2 \/ IsJson(SubSeq(chars, 2, Len(chars) - 1)))

\* JSON.parse(text) of a text that parses: the value, not the string
JsonParse(text) == "JSON " \o text

\* A content block of a response; a block that is not text has no text
TextBlock(text) == [type |-> "text", text |-> text]
ImageBlock == [type |-> "image"]

\* What the MCP client's callTool may do: return a response, or throw
McpOutcomes ==
    { [threw |-> FALSE, structuredContent |-> "undefined",
       content |-> << TextBlock(" ok ") >>],
      [threw |-> TRUE, structuredContent |-> "undefined", content |-> << >>] }

getStructuredMcpToolResponse(response) ==
    IF response.structuredContent # "undefined" THEN response.structuredContent
    ELSE IF /\ Len(response.content) >= 1
            /\ "text" \in DOMAIN response.content[1]
         THEN LET trimmed == Trim(response.content[1].text)
                  chars == Characters[trimmed]
              IN  IF /\ \/ StartsWith(chars, << "{" >>) /\ EndsWith(chars, << "}" >>)
                        \/ StartsWith(chars, << "[" >>) /\ EndsWith(chars, << "]" >>)
                     /\ IsJson(chars)
                  THEN JsonParse(trimmed)
                  ELSE trimmed
    ELSE "null"

\* No reference name: the MCP client was not called
NoCall == << >>

\* The result of the synchronous part of a callTool request that changes nothing
Immediate(response) ==
    [ calls |-> calls, pend |-> wsPendingCalls, counter |-> wsCallCounter,
      response |-> response, mcpCalled |-> NoCall ]

\* A check that looks for the connection only, not at its readyState
ConnectionAvailable_PresentOnly(connectionId) == connectionId \in DOMAIN connections

\* Lines 149-151: the socket of the owning connection, if it is OPEN
ConnectionAvailable(connectionId) ==
    /\ connectionId \in DOMAIN connections
    /\ sockets[connections[connectionId]].readyState = "OPEN"

\* A send that retries once: ws.send runs twice
SendToolCall_Twice(st, n, sendThrows) ==
    LET sent == [st EXCEPT !.calls[n].sendCalls = @ + 2,
                           !.calls[n].delivered = IF sendThrows THEN @ ELSE @ + 2,
                           !.calls[n].first = IF sendThrows THEN "send" ELSE @]
    IN  IF sendThrows THEN settle(sent, n, "reject", E_SendFailed) ELSE sent

\* A send outside any try: the throw leaves the executor, which rejects the
\* promise, and settle never runs
SendToolCall_Unguarded(st, n, sendThrows) ==
    LET sent == [st EXCEPT !.calls[n].sendCalls = @ + 1,
                           !.calls[n].delivered = IF sendThrows THEN @ ELSE @ + 1,
                           !.calls[n].first = IF sendThrows THEN "send" ELSE @]
    IN  IF sendThrows
        THEN [sent EXCEPT !.calls[n] = PromiseSettle(sent.calls[n], "reject", E_SendFailed)]
        ELSE sent

\* Lines 205-221: ws.send(JSON.stringify(message)) inside try/catch
SendToolCall(st, n, sendThrows) ==
    LET sent == [st EXCEPT !.calls[n].sendCalls = @ + 1,
                           !.calls[n].delivered = IF sendThrows THEN @ ELSE @ + 1,
                           !.calls[n].first = IF sendThrows THEN "send" ELSE @]
    IN  IF sendThrows THEN settle(sent, n, "reject", E_SendFailed) ELSE sent

\* Lines 160-222: the executor of the promise of a pending call
RegisterPendingCall(request, env, wsTool, ws) ==
    LET counter == wsCallCounter + 1
        callId == S_wscall \o NumStr(env.now) \o << "_" >> \o NumStr(counter)
        n == Len(calls) + 1
        message == [ type |-> "tool_call", callId |-> callId,
                     toolName |-> wsTool.toolName, args |-> ArgsOrDefault(request.args) ]
        closure == [ callId |-> callId, ws |-> ws, connectionId |-> wsTool.connectionId,
                     toolRef |-> request.toolRef, origin |-> request.origin,
                     settled |-> FALSE, timer |-> TRUE, delay |-> TOOL_CALL_TIMEOUT_MS,
                     onClose |-> TRUE, onError |-> TRUE,
                     promise |-> "pending", value |-> "-", fnCalls |-> 0,
                     returns |-> 0, response |-> NoReturn,
                     message |-> message, sendCalls |-> 0, delivered |-> 0,
                     first |-> "none", payload |-> "-", via |-> 0 ]
        entry == [ callId |-> callId, connectionId |-> wsTool.connectionId,
                   toolName |-> wsTool.toolName, call |-> n ]
        st0 == [ calls |-> Append(calls, closure),
                 pend |-> MapSet(wsPendingCalls, callId, entry) ]
        st1 == SendToolCall(st0, n, env.sendThrows)
    IN  [ calls |-> st1.calls, pend |-> st1.pend, counter |-> counter,
          response |-> st1.calls[n].response, mcpCalled |-> NoCall ]

handleWsToolCall(request, env) ==
    IF ~wsConfigured THEN Immediate(Failure(E_NotConfigured))
    ELSE IF request.toolRef \notin DOMAIN toolsByRef THEN Immediate(Failure(E_WsNotFound))
    ELSE LET wsTool == toolsByRef[request.toolRef]
         IN  IF ~schemaToTypeGuard(wsTool.inputSchema, ArgsOrDefault(request.args))
             THEN Immediate(Failure(E_WsInvalid))
             ELSE IF ~ConnectionAvailable(wsTool.connectionId)
                  THEN Immediate(Failure(E_Unavailable))
                  ELSE RegisterPendingCall(request, env, wsTool,
                                           connections[wsTool.connectionId])

\* A dispatch without the lookups: the MCP client is called with whatever
\* reference name the request carries
handleToolCall_NoLookup(request, env) ==
    [ Immediate(IF env.mcp.threw THEN Failure(E_McpThrew)
                ELSE Success(getStructuredMcpToolResponse(env.mcp)))
      EXCEPT !.mcpCalled = request.toolRef ]

\* The MCP round trip is taken whole: the continuation after the await of
\* mcpClient.callTool reads and writes nothing of the bridge.
handleToolCall(request, env) ==
    IF StartsWith(request.toolRef, S_main) THEN handleWsToolCall(request, env)
    ELSE IF request.toolRef \notin DOMAIN mcpTools THEN Immediate(Failure(E_McpNotFound))
    ELSE LET mcpTool == mcpTools[request.toolRef]
         IN  IF ~schemaToTypeGuard(mcpTool.inputSchema, ArgsOrDefault(request.args))
             THEN Immediate(Failure(E_McpInvalid))
             ELSE [ Immediate(IF env.mcp.threw THEN Failure(E_McpThrew)
                              ELSE Success(getStructuredMcpToolResponse(env.mcp)))
                    EXCEPT !.mcpCalled = mcpTool.referenceName ]

----------------------------------------------------------------------------
(* The state machine *)

RECURSIVE SumOver(_, _)
SumOver(f, ks) ==
    IF ks = {} THEN 0
    ELSE LET k == CHOOSE x \in ks : TRUE IN f[k] + SumOver(f, ks \ {k})

\* The entries of the registry: those of the per-connection lists, and the
\* reference names held by the by-reference index alone
Listed ==
    UNION { { toolsByConnection[c][i].referenceName : i \in 1..Len(toolsByConnection[c]) }
            : c \in DOMAIN toolsByConnection }
TotalTools ==
    SumOver([c \in DOMAIN toolsByConnection |-> Len(toolsByConnection[c])],
            DOMAIN toolsByConnection)
    + Cardinality(DOMAIN toolsByRef \ Listed)
TotalSandboxes == SumOver(sandboxes, DOMAIN sandboxes)
Load == connectionIdCounter + wsCallCounter + TotalTools + Len(runs)

\* No call of runInSandbox returned in the step
NoRun ==
    [ owner |-> << >>, ws |-> 0, executionId |-> "-", delay |-> 0, pc |-> "none",
      timer |-> FALSE, timeoutText |-> FALSE, file |-> "none", promise |-> "none",
      thrown |-> "none", exitCode |-> -1, result |-> [success |-> FALSE, marker |-> FALSE] ]

\* No callTool response was produced by the step
\* no GET /signatures was answered by the step
NoSignatures == [asked |-> FALSE]

\* the MCP client returned nothing to the step
NoMcpResponse == [given |-> FALSE]

Nothing ==
    [ response |-> NoReturn, mcpCalled |-> NoCall, sent |-> << >>,
      handled |-> [ws |-> 0, type |-> "none"], finished |-> NoRun,
      threw |-> FALSE, signatures |-> NoSignatures, mcpResponse |-> NoMcpResponse ]

Init ==
    /\ wsConfigured \in BOOLEAN
    /\ connections = EmptyMap
    /\ connectionIdCounter = 0
    /\ sockets = << >>
    /\ toolsByConnection = EmptyMap
    /\ toolsByRef = EmptyMap
    /\ wsPendingCalls = EmptyMap
    /\ wsCallCounter = 0
    /\ calls = << >>
    /\ sandboxes = EmptyMap
    /\ runs = << >>
    /\ mcpRegistry = create(BridgeConfigs)
    /\ returned = Nothing

\* A dispatch that waits for the handler it started: no message is delivered
\* on a socket while a run started by one of its messages is in progress
Receiving_Idle(ws) ==
    /\ ws \in 1..Len(sockets)
    /\ ~sockets[ws].closeFired
    /\ sockets[ws].readyState # "CLOSED"
    /\ \A r \in 1..Len(runs) : runs[r].ws # ws

\* A socket whose message events are still delivered
Receiving(ws) ==
    /\ ws \in 1..Len(sockets)
    /\ ~sockets[ws].closeFired
    /\ sockets[ws].readyState # "CLOSED"

\* WsServer.handleConnection, once the upgrade has completed
HandleConnection ==
    /\ wsConfigured
    /\ Load < MaxLoad
    /\ \E now \in TimeStamps :
         LET counter == connectionIdCounter + 1
             connectionId == S_ws \o NumStr(now) \o << "_" >> \o NumStr(counter)
         IN  /\ connectionIdCounter' = counter
             /\ sockets' = Append(sockets, [ id |-> connectionId, readyState |-> "OPEN",
                                             closeFired |-> FALSE, registered |-> << >> ])
             /\ connections' = MapSet(connections, connectionId, Len(sockets) + 1)
    /\ returned' = Nothing
    /\ UNCHANGED << mcpRegistry, runs, wsConfigured, toolsByConnection, toolsByRef, wsPendingCalls,
                    wsCallCounter, calls, sandboxes >>

\* WsServer.send: the message is written only to a socket that is OPEN
send(ws, message) ==
    IF sockets[ws].readyState = "OPEN" THEN << [to |-> ws, message |-> message] >>
    ELSE << >>

\* The messages of the server: a type and what it carries
Message(type, body) == [type |-> type, body |-> body]
M_RegisterFailed == "Failed to register tools"
M_SignaturesFailed == "Failed to get signatures"
M_UnknownType == "Unknown message type"
M_InvalidFormat == "Invalid message format"

\* An error path that writes nothing
sendError_Silent(ws, text) == << >>

\* WsServer.sendError
sendError(ws, text) == send(ws, Message("error", text))

\* The step handled a message of this type received on ws (for execute_code:
\* ended its handler) and wrote these messages
Replied(ws, type, messages) ==
    [Nothing EXCEPT !.sent = messages, !.handled = [ws |-> ws, type |-> type]]

\* message register_tools: WsServer.handleRegisterTools
RegisterTools(ws, tools) ==
    /\ Receiving(ws)
    /\ Load < MaxLoad
    /\ LET reg == registerTools(toolsByConnection, toolsByRef, sockets[ws].id, tools)
       IN  /\ toolsByConnection' = reg.byConn
           /\ toolsByRef' = reg.byRef
           /\ sockets' = IF reg.threw THEN sockets
                         ELSE [sockets EXCEPT ![ws].registered = @ \o tools]
           /\ returned' = Replied(ws, "register_tools",
                                  IF reg.threw THEN sendError(ws, M_RegisterFailed)
                                  ELSE send(ws, Message("success", Len(reg.registered))))
    /\ UNCHANGED << mcpRegistry, runs, wsConfigured, connections, connectionIdCounter,
                    wsPendingCalls, wsCallCounter, calls, sandboxes >>

BagAdd(b, k) == IF k \in DOMAIN b THEN [b EXCEPT ![k] = @ + 1] ELSE MapSet(b, k, 1)
BagRemove(b, k) == IF b[k] = 1 THEN MapDelete(b, k) ELSE [b EXCEPT ![k] = @ - 1]

\* message execute_code: WsServer.handleExecuteCode up to the spawn of the sandbox
ExecuteCode(ws) ==
    /\ Receiving(ws)
    /\ TotalSandboxes < MaxSandboxes
    /\ sandboxes' = BagAdd(sandboxes, sockets[ws].id)
    /\ returned' = Nothing
    /\ UNCHANGED << mcpRegistry, runs, wsConfigured, connections, connectionIdCounter, sockets,
                    toolsByConnection, toolsByRef, wsPendingCalls, wsCallCounter, calls >>

\* POST /exec of the HTTP API server: executeCode without a connection
ExecuteHttp ==
    /\ ~wsConfigured
    /\ TotalSandboxes < MaxSandboxes
    /\ sandboxes' = BagAdd(sandboxes, S_http)
    /\ returned' = Nothing
    /\ UNCHANGED << mcpRegistry, runs, wsConfigured, connections, connectionIdCounter, sockets,
                    toolsByConnection, toolsByRef, wsPendingCalls, wsCallCounter, calls >>

\* The sandbox subprocess of owner exits
SandboxExit(owner) ==
    /\ owner \in DOMAIN sandboxes
    /\ sandboxes' = BagRemove(sandboxes, owner)
    /\ returned' = Nothing
    /\ UNCHANGED << mcpRegistry, runs, wsConfigured, connections, connectionIdCounter, sockets,
                    toolsByConnection, toolsByRef, wsPendingCalls, wsCallCounter, calls >>

\* The reference names sandboxed code may pass to callTool
UnknownRefs ==
    { S_main \o << "z" >> \o Dot \o N_add, << "n", "o" >> \o Dot \o N_run }
CallRefs == DOMAIN toolsByRef \cup DOMAIN mcpTools \cup UnknownRefs

Requests(origins) ==
    { [toolRef |-> r, args |-> a, origin |-> o] : r \in CallRefs, a \in ArgValues, o \in origins }

\* What the environment decides during a request: the clock, whether ws.send
\* throws (external path), what the MCP client does (MCP path)
Envs(request) ==
    IF StartsWith(request.toolRef, S_main)
    THEN { [now |-> t, sendThrows |-> s, mcp |-> CHOOSE m \in McpOutcomes : ~m.threw] :
             t \in TimeStamps, s \in BOOLEAN }
    ELSE { [now |-> t, sendThrows |-> FALSE, mcp |-> m] :
             t \in TimeStamps, m \in McpOutcomes }

\* A callTool request reaches the RPC server
Serve(request, env) ==
    /\ LET out == handleToolCall(request, env)
       IN  /\ out.counter # wsCallCounter => Load < MaxLoad
           /\ calls' = out.calls
           /\ wsPendingCalls' = out.pend
           /\ wsCallCounter' = out.counter
           /\ returned' = [Nothing EXCEPT
                              !.response = out.response,
                              !.mcpCalled = out.mcpCalled,
                              !.mcpResponse =
                                  IF out.mcpCalled = NoCall \/ env.mcp.threw
                                  THEN NoMcpResponse
                                  ELSE [given |-> TRUE, response |-> env.mcp]]
    /\ UNCHANGED << mcpRegistry, runs, wsConfigured, connections, connectionIdCounter, sockets,
                    toolsByConnection, toolsByRef, sandboxes >>

\* The caller of the RPC endpoint is not known to the bridge
Anonymous == << >>

CallTool(request, env) ==
    /\ request.origin = Anonymous
    /\ Serve(request, env)

\* callTool issued by the code of a running sandbox
SandboxCallTool(request, env) ==
    /\ request.origin \in DOMAIN sandboxes
    /\ Serve(request, env)

\* The trigger that reaches a call first
MarkFirst(cs, hit, kind, payload, via) ==
    LET RECURSIVE Mark(_, _)
        Mark(acc, n) ==
            IF n > Len(cs) THEN acc
            ELSE IF n \in hit /\ cs[n].first = "none"
                 THEN Mark([acc EXCEPT ![n].first = kind, ![n].payload = payload,
                                       ![n].via = via], n + 1)
                 ELSE Mark(acc, n + 1)
    IN  Mark(cs, 1)

\* message tool_result received on socket ws: WsServer.handleToolResult
ToolResult(ws, callId, payload) ==
    /\ Receiving(ws)
    /\ LET marked == MarkFirst(calls, { n \in 1..Len(calls) : calls[n].callId = callId },
                               "result", payload, ws)
           st == resolveWsToolCall([calls |-> marked, pend |-> wsPendingCalls],
                                   callId, payload.result, payload.error)
       IN  /\ calls' = st.calls
           /\ wsPendingCalls' = st.pend
    /\ returned' = Nothing
    /\ UNCHANGED << mcpRegistry, runs, wsConfigured, connections, connectionIdCounter, sockets,
                    toolsByConnection, toolsByRef, wsCallCounter, sandboxes >>

\* The timer of call n fires (lines 178-180)
Timeout(n) ==
    /\ n \in 1..Len(calls)
    /\ calls[n].timer
    /\ LET marked == MarkFirst(calls, {n}, "timeout", "-", 0)
           st == settle([calls |-> ClearTimeout(marked, n), pend |-> wsPendingCalls],
                        n, "reject", E_Timeout)
       IN  /\ calls' = st.calls
           /\ wsPendingCalls' = st.pend
    /\ returned' = Nothing
    /\ UNCHANGED << mcpRegistry, runs, wsConfigured, connections, connectionIdCounter, sockets,
                    toolsByConnection, toolsByRef, wsCallCounter, sandboxes >>

\* The closing handshake of socket ws starts: readyState leaves OPEN
SocketClosing(ws) ==
    /\ ws \in 1..Len(sockets)
    /\ sockets[ws].readyState = "OPEN"
    /\ sockets' = [sockets EXCEPT ![ws].readyState = "CLOSING"]
    /\ returned' = Nothing
    /\ UNCHANGED << mcpRegistry, runs, wsConfigured, connections, connectionIdCounter, toolsByConnection,
                    toolsByRef, wsPendingCalls, wsCallCounter, calls, sandboxes >>

\* An error event on socket ws: ws.onerror logs, then the onError listeners
SocketError(ws) ==
    /\ ws \in 1..Len(sockets)
    /\ ~sockets[ws].closeFired
    /\ LET marked == MarkFirst(calls, { n \in 1..Len(calls) : calls[n].ws = ws },
                               "error", "-", ws)
           st == RunListeners([calls |-> marked, pend |-> wsPendingCalls], 1, ws, "error")
       IN  /\ calls' = st.calls
           /\ wsPendingCalls' = st.pend
    /\ returned' = Nothing
    /\ UNCHANGED << mcpRegistry, runs, wsConfigured, connections, connectionIdCounter, sockets,
                    toolsByConnection, toolsByRef, wsCallCounter, sandboxes >>

\* WsServer.handleDisconnect
handleDisconnect(st, connectionId) ==
    LET reg == unregisterConnection(toolsByConnection, toolsByRef, connectionId)
    IN  [ st |-> cancelWsCallsForConnection(st, connectionId),
          byConn |-> reg.byConn,
          byRef |-> reg.byRef,
          connections |-> MapDelete(connections, connectionId) ]

\* The close event of socket ws: ws.onclose, set in handleConnection, runs
\* first, then the onClose listeners that calls added and have not removed.
SocketClose(ws) ==
    /\ ws \in 1..Len(sockets)
    /\ ~sockets[ws].closeFired
    /\ sockets' = [sockets EXCEPT ![ws].readyState = "CLOSED", ![ws].closeFired = TRUE,
                                  ![ws].registered = << >>]
    /\ LET marked == MarkFirst(calls, { n \in 1..Len(calls) : calls[n].ws = ws },
                               "close", "-", ws)
           down == handleDisconnect([calls |-> marked, pend |-> wsPendingCalls],
                                    sockets[ws].id)
           st == RunListeners(down.st, 1, ws, "close")
       IN  /\ calls' = st.calls
           /\ wsPendingCalls' = st.pend
           /\ toolsByConnection' = down.byConn
           /\ toolsByRef' = down.byRef
           /\ connections' = down.connections
    /\ returned' = Nothing
    /\ UNCHANGED << mcpRegistry, runs, wsConfigured, connectionIdCounter, wsCallCounter, sandboxes >>

SocketIds == 1..Len(sockets)
CallIds == { calls[n].callId : n \in 1..Len(calls) } \cup { S_wscall \o << "x" >> }

Next ==
    \/ HandleConnection
    \/ \E ws \in SocketIds, tools \in DescriptorLists : RegisterTools(ws, tools)
    \/ \E request \in Requests({Anonymous}) : \E env \in Envs(request) :
           CallTool(request, env)
    \/ \E ws \in SocketIds, callId \in CallIds, payload \in ResultPayloads :
           ToolResult(ws, callId, payload)
    \/ \E n \in 1..Len(calls) : Timeout(n)
    \/ \E ws \in SocketIds : SocketClosing(ws)
    \/ \E ws \in SocketIds : SocketError(ws)
    \/ \E ws \in SocketIds : SocketClose(ws)

Spec == Init /\ [][Next]_vars

\* The same bridge with the sandbox runs that issue the requests
NextSandbox ==
    \/ HandleConnection
    \/ \E ws \in SocketIds, tools \in DescriptorLists : RegisterTools(ws, tools)
    \/ \E ws \in SocketIds : ExecuteCode(ws)
    \/ ExecuteHttp
    \/ \E owner \in DOMAIN sandboxes : SandboxExit(owner)
    \/ \E request \in Requests(DOMAIN sandboxes) : \E env \in Envs(request) :
           SandboxCallTool(request, env)
    \/ \E ws \in SocketIds, callId \in CallIds, payload \in ResultPayloads :
           ToolResult(ws, callId, payload)
    \/ \E ws \in SocketIds : SocketClose(ws)

SpecSandbox == Init /\ [][NextSandbox]_vars

----------------------------------------------------------------------------
(* CodeExecutionEngine.runInSandbox *)

\* parseInt(Deno.env.get("CODE_EXECUTION_TIMEOUT_MS") || "30000")
DEFAULT_TIMEOUT_MS == 30000
TimeoutSettings == { [set |-> FALSE, value |-> 0], [set |-> TRUE, value |-> 1000] }
TIMEOUT_MS(setting) == IF setting.set THEN setting.value ELSE DEFAULT_TIMEOUT_MS

\* How far a run gets before its subprocess runs: each of readTextFile,
\* makeTempFile, writeTextFile and command.spawn() may throw
StartOutcomes == { "spawned", "readFailed", "tempFailed", "writeFailed", "spawnFailed" }

\* What the environment decides for a run up to its spawn
StartEnvs ==
    { e \in [start : StartOutcomes, removeOk : BOOLEAN, timeout : TimeoutSettings] :
        /\ e.start = "spawnFailed" \/ e.removeOk
        /\ e.start = "spawned" \/ ~e.timeout.set }

\* await Deno.remove(tempFile).catch(() => {})
Remove(removeOk) == IF removeOk THEN "removed" ELSE "removeFailed"

\* runInSandbox from its entry to the await of process.output().  The awaits
\* on the file system touch the temporary file of this run alone and are
\* taken with the step they follow.  owner is the connection id of
\* executeCodeForConnection, or S_http for executeCode.
runInSandbox(owner, ws, executionId, env) ==
    [ owner |-> owner, ws |-> ws, executionId |-> executionId,
      delay |-> TIMEOUT_MS(env.timeout),
      pc |-> IF env.start = "spawned" THEN "running" ELSE "returned",
      timer |-> env.start = "spawned",
      timeoutText |-> FALSE,
      file |-> CASE env.start \in {"readFailed", "tempFailed"} -> "none"
                 [] env.start = "writeFailed" -> "exists"
                 [] env.start = "spawnFailed" -> Remove(env.removeOk)
                 [] OTHER -> "exists",
      promise |-> IF env.start = "spawned" THEN "pending" ELSE "rejected",
      thrown |-> IF env.start = "spawned" THEN "none" ELSE env.start,
      exitCode |-> -1,
      result |-> [success |-> FALSE, marker |-> FALSE] ]

\* The timer callback: process.kill("SIGTERM") and the marker text
killOnTimeout(run) == [run EXCEPT !.timer = FALSE, !.timeoutText = TRUE, !.pc = "signalled"]

\* The exit codes of the subprocess: of its own accord, or after SIGTERM, which
\* ends it (143) unless the sandboxed code handles the signal and exits itself
ExitCodes(run) == IF run.pc = "signalled" THEN {143, 0} ELSE {0, 1}

\* The continuation of await process.output(): clearTimeout, the result, and
\* the removal of the temporary file in the finally block
processOutput(run, exitCode, removeOk) ==
    [run EXCEPT !.timer = FALSE, !.pc = "returned", !.exitCode = exitCode,
                !.file = Remove(removeOk), !.promise = "fulfilled",
                !.result = [success |-> exitCode = 0, marker |-> run.timeoutText]]

\* handleExecuteCode after the await of executeCodeForConnection
ExecutionResult(run) ==
    Message("execution_result",
            IF run.promise = "fulfilled"
            THEN [ executionId |-> run.executionId, success |-> run.result.success,
                   output |-> TRUE, marker |-> run.result.marker, error |-> FALSE ]
            ELSE [ executionId |-> run.executionId, success |-> FALSE,
                   output |-> FALSE, marker |-> FALSE, error |-> TRUE ])

\* A handler without its catch: a rejected run reaches the catch of ws.onmessage
EndOfHandler_Rethrow(run) ==
    IF run.ws = 0 THEN [Nothing EXCEPT !.finished = run]
    ELSE [Replied(run.ws, "execute_code",
                  IF run.promise = "fulfilled" THEN send(run.ws, ExecutionResult(run))
                  ELSE sendError(run.ws, M_InvalidFormat))
            EXCEPT !.finished = run]

\* A handler that answers in its try and again in its catch
EndOfHandler_Twice(run) ==
    IF run.ws = 0 THEN [Nothing EXCEPT !.finished = run]
    ELSE [Replied(run.ws, "execute_code",
                  send(run.ws, ExecutionResult(run)) \o send(run.ws, ExecutionResult(run)))
            EXCEPT !.finished = run]

\* The end of the handler that awaited the run: the execution_result of
\* handleExecuteCode; the POST /exec handler answers its own HTTP request
EndOfHandler(run) ==
    IF run.ws = 0 THEN [Nothing EXCEPT !.finished = run]
    ELSE [Replied(run.ws, "execute_code", send(run.ws, ExecutionResult(run)))
            EXCEPT !.finished = run]

\* The sequence without its r-th element
Without(seq, r) == SubSeq(seq, 1, r - 1) \o SubSeq(seq, r + 1, Len(seq))

ExecutionIds == { "e1" }

\* message execute_code: WsServer.handleExecuteCode
handleExecuteCode(ws, executionId, env) ==
    /\ Receiving(ws)
    /\ Load < MaxLoad
    /\ LET run == runInSandbox(sockets[ws].id, ws, executionId, env)
       IN  /\ runs' = IF run.pc = "running" THEN Append(runs, run) ELSE runs
           /\ sandboxes' = IF run.pc = "running" THEN BagAdd(sandboxes, run.owner)
                           ELSE sandboxes
           /\ returned' = IF run.pc = "running" THEN Nothing ELSE EndOfHandler(run)
    /\ UNCHANGED << mcpRegistry, wsConfigured, connections, connectionIdCounter, sockets,
                    toolsByConnection, toolsByRef, wsPendingCalls, wsCallCounter, calls >>

\* message execute_code, while fewer than MaxRuns runs are in progress
ExecuteCodeMessage(ws, executionId, env) ==
    /\ Len(runs) < MaxRuns
    /\ handleExecuteCode(ws, executionId, env)

\* POST /exec of the HTTP API server: codeExecutor.executeCode(code)
ExecHttpRequest(env) ==
    /\ ~wsConfigured
    /\ Load < MaxLoad
    /\ Len(runs) < MaxRuns
    /\ LET run == runInSandbox(S_http, 0, "-", env)
       IN  /\ runs' = IF run.pc = "running" THEN Append(runs, run) ELSE runs
           /\ sandboxes' = IF run.pc = "running" THEN BagAdd(sandboxes, run.owner)
                           ELSE sandboxes
           /\ returned' = IF run.pc = "running" THEN Nothing ELSE EndOfHandler(run)
    /\ UNCHANGED << mcpRegistry, wsConfigured, connections, connectionIdCounter, sockets,
                    toolsByConnection, toolsByRef, wsPendingCalls, wsCallCounter, calls >>

\* The execution timer of run r fires
ExecutionTimeout(r) ==
    /\ r \in 1..Len(runs)
    /\ runs[r].timer
    /\ runs' = [runs EXCEPT ![r] = killOnTimeout(runs[r])]
    /\ returned' = Nothing
    /\ UNCHANGED << mcpRegistry, wsConfigured, connections, connectionIdCounter, sockets,
                    toolsByConnection, toolsByRef, wsPendingCalls, wsCallCounter, calls,
                    sandboxes >>

\* The subprocess of run r exits: runInSandbox returns, and so does its caller
ProcessExits(r, exitCode, removeOk) ==
    /\ r \in 1..Len(runs)
    /\ runs[r].pc \in {"running", "signalled"}
    /\ exitCode \in ExitCodes(runs[r])
    /\ LET run == processOutput(runs[r], exitCode, removeOk)
       IN  /\ runs' = Without(runs, r)
           /\ sandboxes' = BagRemove(sandboxes, run.owner)
           /\ returned' = EndOfHandler(run)
    /\ UNCHANGED << mcpRegistry, wsConfigured, connections, connectionIdCounter, sockets,
                    toolsByConnection, toolsByRef, wsPendingCalls, wsCallCounter, calls >>

----------------------------------------------------------------------------
(* The other messages of WsServer.handleMessage, and the server as a whole *)

\* generateFullTsFile("main", wsTools): one signature per definition, named
\* cleanupVariableName(tool.toolName)
RECURSIVE SignatureNames(_)
SignatureNames(wsTools) ==
    IF wsTools = << >> THEN << >>
    ELSE << cleanupVariableName(Head(wsTools).toolName) >> \o SignatureNames(Tail(wsTools))

\* message get_signatures without filters: WsServer.handleGetSignatures.  The
\* reply carries the list read once the MCP signatures have been awaited.
GetSignatures(ws, throws) ==
    /\ Receiving(ws)
    /\ LET wsTools == getToolsForConnection(toolsByConnection, sockets[ws].id)
           content == [mcp |-> DOMAIN mcpTools, main |-> SignatureNames(wsTools)]
       IN  returned' = Replied(ws, "get_signatures",
                               IF throws THEN sendError(ws, M_SignaturesFailed)
                               ELSE send(ws, Message("signatures", content)))
    /\ UNCHANGED << mcpRegistry, runs, wsConfigured, connections, connectionIdCounter, sockets,
                    toolsByConnection, toolsByRef, wsPendingCalls, wsCallCounter, calls,
                    sandboxes >>

\* A message that JSON.parse refuses, or one whose type no case handles
OtherMessages == { "invalid_json", "unknown_type" }

\* ws.onmessage for such a message: the catch, or the default case
OtherMessage(ws, kind) ==
    /\ Receiving(ws)
    /\ returned' = Replied(ws, kind,
                           sendError(ws, IF kind = "invalid_json" THEN M_InvalidFormat
                                         ELSE M_UnknownType))
    /\ UNCHANGED << mcpRegistry, runs, wsConfigured, connections, connectionIdCounter, sockets,
                    toolsByConnection, toolsByRef, wsPendingCalls, wsCallCounter, calls,
                    sandboxes >>

\* A descriptor whose raw name differs from add and cleans up to add
ShoutTool == [name |-> N_add \o << "!" >>, inputSchema |-> ObjectSchema({"a"})]
WideDescriptorLists == DescriptorLists \cup { << AddTool, ShoutTool >> }

NextServer ==
    \/ HandleConnection
    \/ \E ws \in SocketIds, tools \in WideDescriptorLists : RegisterTools(ws, tools)
    \/ \E ws \in SocketIds, throws \in BOOLEAN : GetSignatures(ws, throws)
    \/ \E ws \in SocketIds, kind \in OtherMessages : OtherMessage(ws, kind)
    \/ \E ws \in SocketIds, executionId \in ExecutionIds, env \in StartEnvs :
           ExecuteCodeMessage(ws, executionId, env)
    \/ \E env \in StartEnvs : ExecHttpRequest(env)
    \/ \E r \in 1..Len(runs) : ExecutionTimeout(r)
    \/ \E r \in 1..Len(runs), exitCode \in {0, 1, 143}, removeOk \in BOOLEAN :
           ProcessExits(r, exitCode, removeOk)
    \/ \E ws \in SocketIds : SocketClose(ws)

SpecServer == Init /\ [][NextServer]_vars

\* The message handlers next to the calls of the bridge and the closing
\* handshake: messages are delivered until the close event
NextMessages ==
    \/ HandleConnection
    \/ \E ws \in SocketIds, tools \in DescriptorLists : RegisterTools(ws, tools)
    \/ \E request \in Requests({Anonymous}) : \E env \in Envs(request) :
           CallTool(request, env)
    \/ \E ws \in SocketIds, kind \in OtherMessages : OtherMessage(ws, kind)
    \/ \E ws \in SocketIds : SocketClosing(ws)
    \/ \E ws \in SocketIds : SocketClose(ws)

SpecMessages == Init /\ [][NextMessages]_vars

----------------------------------------------------------------------------
(* An execution and the callbacks of its sandbox: the execute_code handler   *)
(* is suspended at its await while the sandboxed code calls tools             *)

NextRoundTrip ==
    \/ HandleConnection
    \/ \E ws \in SocketIds, tools \in DescriptorLists : RegisterTools(ws, tools)
    \/ \E ws \in SocketIds, executionId \in ExecutionIds, env \in StartEnvs :
           ExecuteCodeMessage(ws, executionId, env)
    \/ \E request \in Requests(DOMAIN sandboxes) : \E env \in Envs(request) :
           SandboxCallTool(request, env)
    \/ \E ws \in SocketIds, callId \in CallIds, payload \in ResultPayloads :
           ToolResult(ws, callId, payload)
    \/ \E r \in 1..Len(runs), exitCode \in {0, 1, 143}, removeOk \in BOOLEAN :
           ProcessExits(r, exitCode, removeOk)
    \/ \E ws \in SocketIds : SocketClose(ws)

SpecRoundTrip == Init /\ [][NextRoundTrip]_vars

\* The same with the two timers: the per-call one of the bridge and the
\* per-execution one of the engine
NextTimeouts ==
    \/ HandleConnection
    \/ \E ws \in SocketIds, tools \in DescriptorLists : RegisterTools(ws, tools)
    \/ \E ws \in SocketIds, executionId \in ExecutionIds, env \in StartEnvs :
           ExecuteCodeMessage(ws, executionId, env)
    \/ \E request \in Requests(DOMAIN sandboxes) : \E env \in Envs(request) :
           SandboxCallTool(request, env)
    \/ \E ws \in SocketIds, callId \in CallIds, payload \in ResultPayloads :
           ToolResult(ws, callId, payload)
    \/ \E n \in 1..Len(calls) : Timeout(n)
    \/ \E r \in 1..Len(runs) : ExecutionTimeout(r)
    \/ \E r \in 1..Len(runs), exitCode \in {0, 1, 143}, removeOk \in BOOLEAN :
           ProcessExits(r, exitCode, removeOk)
    \/ \E ws \in SocketIds : SocketClose(ws)

SpecTimeouts == Init /\ [][NextTimeouts]_vars

----------------------------------------------------------------------------
(* The pending calls under the assumption that timers fire: a timer that is  *)
(* armed and stays armed runs its callback; results and closes may or may    *)
(* not come                                                                   *)

NextLive ==
    \/ HandleConnection
    \/ \E ws \in SocketIds, tools \in DescriptorLists : RegisterTools(ws, tools)
    \/ \E request \in Requests({Anonymous}) : \E env \in Envs(request) :
           CallTool(request, env)
    \/ \E ws \in SocketIds, callId \in CallIds, payload \in ResultPayloads :
           ToolResult(ws, callId, payload)
    \/ \E n \in 1..Len(calls) : Timeout(n)
    \/ \E ws \in SocketIds : SocketClose(ws)

SpecLive ==
    /\ Init
    /\ [][NextLive]_vars
    /\ \A n \in 1..MaxLoad : WF_vars(Timeout(n))

----------------------------------------------------------------------------
(* The callTool method of the RPC server, as any HTTP client may call it *)

\* A request whose params carry no toolRef: the destructuring yields undefined
Missing == << "undefined" >>

RpcRequests ==
    Requests({Anonymous})
    \cup { [toolRef |-> Missing, args |-> a, origin |-> Anonymous] : a \in ArgValues }

RpcEnvs(request) ==
    IF request.toolRef = Missing
    THEN { [now |-> t, sendThrows |-> FALSE, mcp |-> CHOOSE m \in McpOutcomes : ~m.threw] :
             t \in TimeStamps }
    ELSE Envs(request)

\* rpcServer.setMethod("callTool", ...): handleToolCall up to its first use of
\* toolRef, where undefined.startsWith throws a TypeError that nothing
\* catches; the method rejects and the RPC server answers with a JSON-RPC error
callToolMethod(request, env) ==
    IF request.toolRef = Missing
    THEN [ out |-> Immediate(NoReturn), threw |-> TRUE ]
    ELSE [ out |-> handleToolCall(request, env), threw |-> FALSE ]

\* A callTool request reaches the RPC server
RpcCallTool(request, env) ==
    /\ LET method == callToolMethod(request, env)
       IN  /\ method.out.counter # wsCallCounter => Load < MaxLoad
           /\ calls' = method.out.calls
           /\ wsPendingCalls' = method.out.pend
           /\ wsCallCounter' = method.out.counter
           /\ returned' = [Nothing EXCEPT !.response = method.out.response,
                                           !.mcpCalled = method.out.mcpCalled,
                                           !.threw = method.threw]
    /\ UNCHANGED << mcpRegistry, runs, wsConfigured, connections, connectionIdCounter, sockets,
                    toolsByConnection, toolsByRef, sandboxes >>

NextRpc ==
    \/ HandleConnection
    \/ \E ws \in SocketIds, tools \in DescriptorLists : RegisterTools(ws, tools)
    \/ \E request \in RpcRequests : \E env \in RpcEnvs(request) : RpcCallTool(request, env)
    \/ \E n \in 1..Len(calls) : Timeout(n)
    \/ \E ws \in SocketIds : SocketClose(ws)

SpecRpc == Init /\ [][NextRpc]_vars

----------------------------------------------------------------------------
(* Executions that overlap: several execute_code messages, of one or more     *)
(* connections, whose runs are in progress together                           *)

\* runs in progress together
MaxOverlap == 2

OverlapExecutionIds == { "e1", "e2" }

\* the environments of a run that matter to its answer
OverlapEnvs == { e \in StartEnvs : e.start \in { "spawned", "writeFailed" } /\ ~e.timeout.set }

NextOverlap ==
    \/ HandleConnection
    \/ \E ws \in SocketIds, executionId \in OverlapExecutionIds, env \in OverlapEnvs :
           /\ Len(runs) < MaxOverlap
           /\ handleExecuteCode(ws, executionId, env)
    \/ \E r \in 1..Len(runs), exitCode \in {0, 1, 143}, removeOk \in BOOLEAN :
           ProcessExits(r, exitCode, removeOk)
    \/ \E ws \in SocketIds : SocketClosing(ws)
    \/ \E ws \in SocketIds : SocketClose(ws)

SpecOverlap == Init /\ [][NextOverlap]_vars

----------------------------------------------------------------------------
(* Runs whose connection closes, with the timers firing: a timer that is set  *)
(* and not cleared runs its callback.  Nothing makes the subprocess exit.     *)

SpecClosedRun ==
    /\ Init
    /\ [][NextTimeouts]_vars
    /\ \A n \in 1..MaxLoad : WF_vars(Timeout(n))
    /\ \A r \in 1..MaxLoad : WF_vars(ExecutionTimeout(r))

----------------------------------------------------------------------------
(* Error events on the sockets of connections with calls pending *)

NextErrors ==
    \/ HandleConnection
    \/ \E ws \in SocketIds, tools \in DescriptorLists : RegisterTools(ws, tools)
    \/ \E request \in Requests({Anonymous}) : \E env \in Envs(request) :
           CallTool(request, env)
    \/ \E ws \in SocketIds : SocketError(ws)
    \/ \E ws \in SocketIds : SocketClose(ws)

SpecErrors == Init /\ [][NextErrors]_vars

----------------------------------------------------------------------------
(* Tool results as a client may send them *)

\* The result and error of a tool_result message as handleToolResult passes
\* them on; "" for the error is what `if (error)` takes as no error, and
\* carriesError tells whether the message had an error property at all: the
\* last payload is that of a client reporting a failure whose text is empty
ClientPayloads ==
    { [error |-> "", result |-> "r1", carriesError |-> FALSE],
      [error |-> "boom", result |-> "-", carriesError |-> TRUE],
      [error |-> "", result |-> "-", carriesError |-> TRUE] }

NextResults ==
    \/ HandleConnection
    \/ \E ws \in SocketIds, tools \in DescriptorLists : RegisterTools(ws, tools)
    \/ \E request \in Requests({Anonymous}) : \E env \in Envs(request) :
           CallTool(request, env)
    \/ \E ws \in SocketIds, callId \in CallIds, payload \in ClientPayloads :
           ToolResult(ws, callId, payload)

SpecResults == Init /\ [][NextResults]_vars

----------------------------------------------------------------------------
(* Calls of MCP tools, with the responses an MCP server may give              *)

McpResponses ==
    { [threw |-> FALSE, structuredContent |-> c, content |-> << TextBlock(t) >>] :
          c \in { "undefined", "structured" }, t \in Texts }
    \cup { [threw |-> FALSE, structuredContent |-> "undefined", content |-> blocks] :
              blocks \in { << >>, << ImageBlock >>, << ImageBlock, TextBlock("{}") >>,
                           << TextBlock(" ok "), TextBlock("{}") >> } }
    \cup { [threw |-> TRUE, structuredContent |-> "undefined", content |-> << >>] }

McpEnvs(request) ==
    IF StartsWith(request.toolRef, S_main) THEN {}
    ELSE { [now |-> t, sendThrows |-> FALSE, mcp |-> m] :
             t \in TimeStamps, m \in McpResponses }

NextMcpCall ==
    \/ HandleConnection
    \/ \E ws \in SocketIds, tools \in DescriptorLists : RegisterTools(ws, tools)
    \/ \E request \in Requests({Anonymous}) : \E env \in McpEnvs(request) :
          CallTool(request, env)

SpecMcpCall == Init /\ [][NextMcpCall]_vars

----------------------------------------------------------------------------
(* The MCP registry on its own: created at start-up from mcp_config.json,     *)
(* queried by GET /signatures, shut down on SIGINT                            *)

N_nosuch == << "n", "o" >>

\* The values of a filter parameter of GET /signatures after
\* split(",").filter(Boolean): undefined without the parameter, else the names
ServerNameFilters == { Missing, << >>, << N_search >>, << N_nosuch >>, << N_db, N_search >> }
ToolNameFilters ==
    { Missing, << N_search \o Dot \o N_add >>, << N_db \o Dot \o N_run >>,
      << N_main_x \o Dot \o N_run, N_search \o Dot \o N_add >> }

\* A definition object is told from an equal one by its position in
\* reg.tools, where introspectServer pushes each object once.
\* toolsByServer.get(serverName): the objects pushed under that key, in order
RECURSIVE ServerToolIds(_, _, _)
ServerToolIds(reg, serverName, upTo) ==
    IF upTo = 0 \/ serverName \notin DOMAIN reg.toolsByServer THEN << >>
    ELSE ServerToolIds(reg, serverName, upTo - 1)
         \o ( IF reg.tools[upTo].cleanServerName = serverName THEN << upTo >> ELSE << >> )

\* toolsByRef.get(refName): the object set last under that key
RefToolId(reg, refName) ==
    CHOOSE k \in 1..Len(reg.tools) :
        /\ reg.tools[k].referenceName = refName
        /\ \A l \in 1..Len(reg.tools) : reg.tools[l].referenceName = refName => l <= k

\* selectedTools.add(tool) for each tool of a list
RECURSIVE SetAddAll(_, _)
SetAddAll(selected, ids) ==
    IF ids = << >> THEN selected
    ELSE SetAddAll(IF \E k \in 1..Len(selected) : selected[k] = Head(ids)
                   THEN selected ELSE Append(selected, Head(ids)),
                   Tail(ids))

RECURSIVE SelectServers(_, _, _)
SelectServers(reg, selected, serverNames) ==
    IF serverNames = << >> THEN selected
    ELSE SelectServers(reg,
                       SetAddAll(selected,
                                 ServerToolIds(reg, Head(serverNames), Len(reg.tools))),
                       Tail(serverNames))

RECURSIVE SelectTools(_, _, _)
SelectTools(reg, selected, toolNames) ==
    IF toolNames = << >> THEN selected
    ELSE SelectTools(reg,
                     IF Head(toolNames) \in DOMAIN reg.toolsByRef
                     THEN SetAddAll(selected, << RefToolId(reg, Head(toolNames)) >>)
                     ELSE selected,
                     Tail(toolNames))

\* The grouping of the filtered tools by cleanServerName, in Map order
RECURSIVE GroupByServer(_, _)
GroupByServer(groups, filteredTools) ==
    IF filteredTools = << >> THEN groups
    ELSE LET mcpTool == Head(filteredTools)
             at == { g \in 1..Len(groups) : groups[g].serverName = mcpTool.cleanServerName }
         IN  GroupByServer(
                 IF at = {}
                 THEN Append(groups, [serverName |-> mcpTool.cleanServerName,
                                      tools |-> << mcpTool >>])
                 ELSE LET g == CHOOSE x \in at : TRUE
                      IN  [groups EXCEPT ![g].tools = Append(@, mcpTool)],
                 Tail(filteredTools))

RECURSIVE ToolsAt(_, _)
ToolsAt(reg, ids) ==
    IF ids = << >> THEN << >>
    ELSE << reg.tools[Head(ids)] >> \o ToolsAt(reg, Tail(ids))

\* McpRegistry.getSignatures(options): the tools whose signatures the text
\* returned holds, as one signature or as one generated file per server
getSignatures(reg, serverNames, toolNames) ==
    LET fromServers == IF serverNames # Missing /\ Len(serverNames) > 0
                       THEN SelectServers(reg, << >>, serverNames) ELSE << >>
        selectedTools == IF toolNames # Missing /\ Len(toolNames) > 0
                         THEN SelectTools(reg, fromServers, toolNames) ELSE fromServers
        filteredTools == IF Len(selectedTools) > 0 THEN ToolsAt(reg, selectedTools)
                         ELSE reg.tools
    IN  [ asked |-> TRUE, serverNames |-> serverNames, toolNames |-> toolNames,
          filteredTools |-> filteredTools,
          signatures |->
              IF Len(filteredTools) = 1
              THEN << [kind |-> "signature", serverName |-> filteredTools[1].cleanServerName,
                       tools |-> filteredTools] >>
              ELSE LET groups == GroupByServer(<< >>, filteredTools)
                   IN  [g \in 1..Len(groups) |->
                           [kind |-> "file", serverName |-> groups[g].serverName,
                            tools |-> groups[g].tools]] ]

InitRegistry ==
    /\ wsConfigured = FALSE
    /\ connections = EmptyMap
    /\ connectionIdCounter = 0
    /\ sockets = << >>
    /\ toolsByConnection = EmptyMap
    /\ toolsByRef = EmptyMap
    /\ wsPendingCalls = EmptyMap
    /\ wsCallCounter = 0
    /\ calls = << >>
    /\ sandboxes = EmptyMap
    /\ runs = << >>
    /\ mcpRegistry \in { NewRegistry(c) : c \in SeqsUpTo(ServerConfigs, MaxServers) }
    /\ returned = Nothing

\* McpRegistry.create: await registry.introspectServer(serverConfig)
CreateStep ==
    /\ mcpRegistry.pc = "creating"
    /\ mcpRegistry' = createStep(mcpRegistry)
    /\ returned' = Nothing
    /\ UNCHANGED << runs, wsConfigured, connections, connectionIdCounter, sockets,
                    toolsByConnection, toolsByRef, wsPendingCalls, wsCallCounter, calls,
                    sandboxes >>

\* The SIGINT handler of the API server: await mcpRegistry.disconnect()
Disconnect(throwing) ==
    /\ mcpRegistry.pc = "ready"
    /\ throwing \subseteq mcpRegistry.clients
    /\ mcpRegistry' = disconnect(mcpRegistry, throwing)
    /\ returned' = Nothing
    /\ UNCHANGED << runs, wsConfigured, connections, connectionIdCounter, sockets,
                    toolsByConnection, toolsByRef, wsPendingCalls, wsCallCounter, calls,
                    sandboxes >>

\* GET /signatures of the API server
ApiSignatures(serverNames, toolNames) ==
    /\ mcpRegistry.pc \in { "ready", "closed" }
    /\ returned' = [Nothing EXCEPT
                       !.signatures = getSignatures(mcpRegistry, serverNames, toolNames)]
    /\ UNCHANGED << mcpRegistry, runs, wsConfigured, connections, connectionIdCounter,
                    sockets, toolsByConnection, toolsByRef, wsPendingCalls, wsCallCounter,
                    calls, sandboxes >>

NextRegistry ==
    \/ CreateStep
    \/ \E serverNames \in ServerNameFilters, toolNames \in ToolNameFilters :
          ApiSignatures(serverNames, toolNames)
    \/ \E throwing \in SUBSET (1..MaxServers) : Disconnect(throwing)

SpecRegistry == InitRegistry /\ [][NextRegistry]_vars

----------------------------------------------------------------------------
(* Claims *)

Cur == [calls |-> calls, pend |-> wsPendingCalls]
CallNos == 1..Len(calls)

\* The responses a trigger stands for
TriggerOutcomes(c) ==
    CASE c.first = "result" ->
             { IF c.payload.error # "" THEN Failure(c.payload.error)
               ELSE Success(c.payload.result) }
      [] c.first = "timeout" -> { Failure(E_Timeout) }
      [] c.first = "close" -> { Failure(E_Cancelled), Failure(E_Closed) }
      [] c.first = "error" -> { Failure(E_Error) }
      [] c.first = "send" -> { Failure(E_SendFailed) }
      [] OTHER -> {}

\* C1: under every interleaving of tool_result, timeout and close/error/cancel,
\* the promise of a registered call is resolved or rejected at most once, its
\* outcome is that of the trigger that reached the call first, and
\* handleWsToolCall returns exactly one response for it.
C1_SettledOnceByFirstTrigger ==
    \A n \in CallNos :
        LET c == calls[n]
        IN  /\ c.fnCalls <= 1
            /\ c.returns <= 1
            /\ (c.promise = "pending") <=> (c.first = "none")
            /\ c.promise = "pending" => c.fnCalls = 0 /\ c.returns = 0
            /\ c.promise # "pending" =>
                  /\ c.fnCalls = 1
                  /\ c.returns = 1
                  /\ c.response \in TriggerOutcomes(c)
                  /\ c.promise = IF c.response.success THEN "fulfilled" ELSE "rejected"

\* A call settled by a tool_result whose socket closed afterwards
C1_Witness ==
    \E n \in CallNos :
        /\ calls[n].first = "result"
        /\ calls[n].response.success
        /\ sockets[calls[n].ws].closeFired

\* C2: a settled call has no armed timer, no close or error listener on its
\* socket and no entry in the pending map, whichever trigger settled it; the
\* pending map holds exactly the calls with an armed timer and both listeners.
C2_SettlementCleansUp ==
    /\ \A n \in CallNos :
          LET c == calls[n]
          IN  /\ c.promise # "pending" => c.settled
              /\ c.settled => /\ ~c.timer /\ ~c.onClose /\ ~c.onError
                              /\ c.callId \notin DOMAIN wsPendingCalls
              /\ ~c.settled => /\ c.timer /\ c.onClose /\ c.onError
                               /\ c.callId \in DOMAIN wsPendingCalls
                               /\ wsPendingCalls[c.callId].call = n
    /\ { wsPendingCalls[k].call : k \in DOMAIN wsPendingCalls }
         = { n \in CallNos : calls[n].timer /\ calls[n].onClose /\ calls[n].onError }

\* One call settled by an error event while another call is still pending
C2_Witness ==
    \E n, m \in CallNos :
        /\ calls[n].settled /\ calls[n].first = "error"
        /\ ~calls[m].settled

\* C3: a pending call keeps its 60 s timer armed; when the timer is the first
\* trigger the call is rejected once with the timeout error, and a tool_result
\* for its call id that arrives afterwards changes nothing.
C3_TimeoutThenLateResultIgnored ==
    \A n \in CallNos :
        LET c == calls[n]
        IN  /\ c.delay = 60000
            /\ c.promise = "pending" => c.timer
            /\ c.first = "timeout" =>
                  /\ c.response = Failure(E_Timeout)
                  /\ c.promise = "rejected"
                  /\ c.fnCalls = 1 /\ c.returns = 1
                  /\ \A payload \in ResultPayloads :
                        resolveWsToolCall(Cur, c.callId, payload.result, payload.error) = Cur

\* A call that timed out on a connection that is still open
C3_Witness ==
    \E n \in CallNos :
        /\ calls[n].first = "timeout"
        /\ calls[n].response = Failure(E_Timeout)
        /\ sockets[calls[n].ws].readyState = "OPEN"
        /\ calls[n].connectionId \in DOMAIN connections

\* C4: once a connection has closed, every call it owned is settled (those the
\* close reached are rejected with the connection-closed error), the connection
\* is out of the connection table, and neither the per-connection list nor a
\* lookup by reference name finds a tool of that connection.
C4_CloseRemovesEverything ==
    \A ws \in SocketIds :
        sockets[ws].closeFired =>
            LET id == sockets[ws].id
            IN  /\ id \notin DOMAIN connections
                /\ \A n \in CallNos :
                      calls[n].connectionId = id =>
                          /\ calls[n].promise # "pending"
                          /\ calls[n].first = "close" =>
                                calls[n].response = Failure(E_Cancelled)
                /\ getToolsForConnection(toolsByConnection, id) = << >>
                /\ \A ref \in DOMAIN toolsByRef : toolsByRef[ref].connectionId # id

\* C5: every external call issued by the sandbox of a connection is owned by
\* that connection: no pending call and no tool_call goes to another one.
C5_SandboxReachesOwnToolsOnly ==
    \A n \in CallNos : calls[n].connectionId = calls[n].origin

\* C6: a call settled by a tool_result was settled by a message received on
\* the socket of the connection that owns the call.
C6_ResultOnlyViaOwner ==
    \A n \in CallNos :
        calls[n].first = "result" => sockets[calls[n].via].id = calls[n].connectionId

\* The request changes nothing of the pending calls
Quiet(out) ==
    /\ out.calls = calls
    /\ out.pend = wsPendingCalls
    /\ out.counter = wsCallCounter

\* C7: for every registered tool, MCP or external, a request whose arguments
\* violate the tool's input schema returns success=false without an MCP client
\* call, a tool_call or a pending call; a request whose arguments satisfy it
\* goes on to the invocation (the MCP client call, or the connection check and
\* the tool_call).
C7_GuardGatesInvocation ==
    \A request \in Requests({Anonymous}) : \A env \in Envs(request) :
        LET ref == request.toolRef
            args == ArgsOrDefault(request.args)
            out == handleToolCall(request, env)
        IN  /\ ref \in DOMAIN mcpTools =>
                  IF \E k \in mcpTools[ref].inputSchema.required : k \notin args
                  THEN ~out.response.success /\ out.mcpCalled = NoCall /\ Quiet(out)
                  ELSE out.mcpCalled = ref
            /\ ref \in DOMAIN toolsByRef =>
                  IF \E k \in toolsByRef[ref].inputSchema.required : k \notin args
                  THEN ~out.response.success /\ out.mcpCalled = NoCall /\ Quiet(out)
                  ELSE \/ out.response = Failure(E_Unavailable)
                       \/ Len(out.calls) = Len(calls) + 1

\* The owner of an external tool is in the connection table with an OPEN socket
OwnerOpen(ref) ==
    LET id == toolsByRef[ref].connectionId
    IN  /\ id \in DOMAIN connections
        /\ sockets[connections[id]].readyState = "OPEN"

\* C8 as stated: every request for an external tool whose owner is absent or
\* not OPEN returns the connection-unavailable error and creates nothing.
C8_AsStated ==
    \A request \in Requests({Anonymous}) : \A env \in Envs(request) :
        LET ref == request.toolRef
            out == handleToolCall(request, env)
        IN  (ref \in DOMAIN toolsByRef /\ ~OwnerOpen(ref)) =>
                /\ out.response = Failure(E_Unavailable)
                /\ out.mcpCalled = NoCall
                /\ Quiet(out)

\* C8: a request for an external tool with arguments its schema accepts, whose
\* owner is absent from the connection table or whose socket is not OPEN,
\* returns the connection-unavailable error at once: no pending call, no
\* timer, no tool_call, nothing kept for later.  With arguments the schema
\* rejects the request fails too, with the invalid-arguments error.
C8_UnavailableFailsImmediately ==
    \A request \in Requests({Anonymous}) : \A env \in Envs(request) :
        LET ref == request.toolRef
            args == ArgsOrDefault(request.args)
            out == handleToolCall(request, env)
        IN  (ref \in DOMAIN toolsByRef /\ ~OwnerOpen(ref)) =>
                /\ out.response =
                       IF toolsByRef[ref].inputSchema.required \subseteq args
                       THEN Failure(E_Unavailable) ELSE Failure(E_WsInvalid)
                /\ out.mcpCalled = NoCall
                /\ Quiet(out)

\* A connection-unavailable response while a socket is in its closing handshake
C8_Witness ==
    /\ returned.response = Failure(E_Unavailable)
    /\ \E ref \in DOMAIN toolsByRef :
          /\ toolsByRef[ref].connectionId \in DOMAIN connections
          /\ sockets[connections[toolsByRef[ref].connectionId]].readyState = "CLOSING"

\* A request that passes lookup, validation and the open-connection check
Passes(request) ==
    LET ref == request.toolRef
    IN  /\ wsConfigured
        /\ ref \in DOMAIN toolsByRef
        /\ toolsByRef[ref].inputSchema.required \subseteq ArgsOrDefault(request.args)
        /\ OwnerOpen(ref)

\* C9: a request on the external path that passes the three checks runs
\* ws.send once, on the socket of the owning connection, with the call id, the
\* raw tool name and the args; a request that fails a check sends nothing; and
\* whatever happens to a call afterwards its tool_call is never sent again.
C9_ExactlyOneToolCall ==
    /\ \A n \in CallNos :
          LET c == calls[n]
          IN  /\ c.sendCalls = 1
              /\ c.delivered <= 1
              /\ (c.delivered = 0) <=> (c.first = "send")
              /\ sockets[c.ws].id = c.connectionId
              /\ c.message.type = "tool_call"
              /\ c.message.callId = c.callId
              /\ c.toolRef = generateNamespace(c.connectionId) \o Dot
                                \o cleanupVariableName(c.message.toolName)
    /\ \A request \in Requests({Anonymous}) : \A env \in Envs(request) :
          LET out == handleToolCall(request, env)
              n == Len(calls) + 1
          IN  IF StartsWith(request.toolRef, S_main) /\ Passes(request)
              THEN /\ Len(out.calls) = n
                   /\ SubSeq(out.calls, 1, Len(calls)) = calls
                   /\ out.calls[n].sendCalls = 1
                   /\ out.calls[n].message.args = ArgsOrDefault(request.args)
                   /\ out.calls[n].message.toolName = toolsByRef[request.toolRef].toolName
              ELSE out.calls = calls

\* A call whose timer fired and one whose socket closed, each with its one send
C9_Witness ==
    \E n, m \in CallNos :
        /\ calls[n].first = "timeout" /\ calls[n].delivered = 1
        /\ calls[m].first = "close" /\ calls[m].delivered = 1

\* A request for a reference name that no registry holds
Unknown(request) ==
    /\ request.toolRef \notin DOMAIN mcpTools
    /\ request.toolRef \notin DOMAIN toolsByRef

\* The request invokes no tool and writes nothing: handleToolCall reads the
\* registries and the connection table and writes the pending calls alone
NoSideEffect(out) ==
    /\ out.mcpCalled = NoCall
    /\ Quiet(out)

\* C10 as stated: every request for an unknown reference name returns a
\* tool-not-found error and has no side effect.
C10_AsStated ==
    \A request \in Requests({Anonymous}) : \A env \in Envs(request) :
        LET out == handleToolCall(request, env)
        IN  Unknown(request) =>
                /\ out.response \in { Failure(E_McpNotFound), Failure(E_WsNotFound) }
                /\ NoSideEffect(out)

\* C10: a request for an unknown reference name returns success=false and has
\* no side effect; the error is tool-not-found, except that a bridge without
\* external-tool support answers a name starting with main_ with the
\* not-configured error, before any lookup.
C10_UnknownRefFails ==
    \A request \in Requests({Anonymous}) : \A env \in Envs(request) :
        LET out == handleToolCall(request, env)
        IN  Unknown(request) =>
                /\ out.response =
                       IF ~StartsWith(request.toolRef, S_main) THEN Failure(E_McpNotFound)
                       ELSE IF wsConfigured THEN Failure(E_WsNotFound)
                       ELSE Failure(E_NotConfigured)
                /\ NoSideEffect(out)

\* An unknown main_ name was refused while a connection has tools registered
C10_Witness ==
    /\ returned.response = Failure(E_WsNotFound)
    /\ DOMAIN toolsByRef # {}
    /\ wsPendingCalls = EmptyMap

\* The positions of the per-connection lists of the external registry
ListEntries ==
    UNION { { << c, i >> : i \in 1..Len(toolsByConnection[c]) } : c \in DOMAIN toolsByConnection }
EntryAt(e) == toolsByConnection[e[1]][e[2]]

\* C11: no two distinct tool definitions held by the MCP registry or by the
\* per-connection lists of the external registry have the same reference name.
C11_ReferenceNamesUnique ==
    /\ \A d1, d2 \in McpToolDefinitions :
          d1 # d2 => d1.referenceName # d2.referenceName
    /\ \A e \in ListEntries : \A d \in McpToolDefinitions :
          EntryAt(e).referenceName # d.referenceName
    /\ \A e1, e2 \in ListEntries :
          EntryAt(e1) # EntryAt(e2) => EntryAt(e1).referenceName # EntryAt(e2).referenceName

\* The socket is open and its connection is in the connection table
OpenConnection(ws) ==
    /\ sockets[ws].readyState = "OPEN"
    /\ sockets[ws].id \in DOMAIN connections
    /\ connections[sockets[ws].id] = ws

\* The reference name of a descriptor registered on the connection of ws
RefOn(ws, tool) ==
    generateNamespace(sockets[ws].id) \o Dot \o cleanupVariableName(tool.name)

\* The raw names two sockets have both registered with success
SharedNames(wsA, wsB) ==
    { sockets[wsA].registered[i].name : i \in 1..Len(sockets[wsA].registered) }
    \cap { sockets[wsB].registered[i].name : i \in 1..Len(sockets[wsB].registered) }

\* C12: when two distinct open connections A and B have both registered a tool
\* of the same raw name, the two reference names differ, A's resolves to a
\* definition owned by A and B's to one owned by B, and a callTool on A's
\* reference name that is accepted creates one call, whose tool_call goes to
\* the socket of A, and touches no other call.
C12_SameRawNameNoCollision ==
    \A wsA, wsB \in SocketIds :
        (wsA # wsB /\ OpenConnection(wsA) /\ OpenConnection(wsB)) =>
            \A name \in SharedNames(wsA, wsB) :
                LET refA == RefOn(wsA, [name |-> name])
                    refB == RefOn(wsB, [name |-> name])
                IN  /\ refA # refB
                    /\ refA \in DOMAIN toolsByRef /\ refB \in DOMAIN toolsByRef
                    /\ toolsByRef[refA].connectionId = sockets[wsA].id
                    /\ toolsByRef[refB].connectionId = sockets[wsB].id
                    /\ toolsByRef[refA].toolName = name
                    /\ toolsByRef[refB].toolName = name
                    /\ \A args \in ArgValues :
                          LET request == [toolRef |-> refA, args |-> args, origin |-> Anonymous]
                          IN  \A env \in Envs(request) :
                                LET out == handleToolCall(request, env)
                                    n == Len(calls) + 1
                                IN  IF Passes(request)
                                    THEN /\ Len(out.calls) = n
                                         /\ SubSeq(out.calls, 1, Len(calls)) = calls
                                         /\ out.calls[n].ws = wsA
                                         /\ out.calls[n].sendCalls = 1
                                         /\ out.calls[n].message.toolName = name
                                    ELSE out.calls = calls

\* Two open connections that have both registered add, and a request on the
\* reference name of the first that passes the checks
C12_Witness ==
    \E wsA, wsB \in SocketIds :
        /\ wsA # wsB /\ OpenConnection(wsA) /\ OpenConnection(wsB)
        /\ N_add \in SharedNames(wsA, wsB)
        /\ \E args \in ArgValues :
              Passes([toolRef |-> RefOn(wsA, AddTool), args |-> args, origin |-> Anonymous])

\* The signature names of the descriptors, in the order of their registration
RECURSIVE CleanNames(_)
CleanNames(tools) ==
    IF tools = << >> THEN << >>
    ELSE << cleanupVariableName(Head(tools).name) >> \o CleanNames(Tail(tools))

\* C13: a signatures reply to get_signatures on connection C lists, as
\* externally registered tools, one signature for each descriptor that a
\* register_tools message on C has registered, in order, and nothing else; the
\* definitions it is generated from are all owned by C.
C13_SignaturesListOwnTools ==
    /\ ( /\ returned.handled.type = "get_signatures"
         /\ returned.sent # << >>
         /\ returned.sent[1].message.type = "signatures" ) =>
            /\ Len(returned.sent) = 1
            /\ returned.sent[1].to = returned.handled.ws
            /\ returned.sent[1].message.body.main
                  = CleanNames(sockets[returned.handled.ws].registered)
    /\ \A ws \in SocketIds :
          Receiving(ws) =>
              LET wsTools == getToolsForConnection(toolsByConnection, sockets[ws].id)
              IN  /\ SignatureNames(wsTools) = CleanNames(sockets[ws].registered)
                  /\ \A i \in 1..Len(wsTools) : wsTools[i].connectionId = sockets[ws].id

\* A signatures reply that lists tools, sent while another connection has
\* registered tools as well
C13_Witness ==
    /\ returned.handled.type = "get_signatures"
    /\ returned.sent # << >>
    /\ returned.sent[1].message.type = "signatures"
    /\ returned.sent[1].message.body.main # << >>
    /\ \E other \in SocketIds :
          /\ other # returned.handled.ws
          /\ Len(sockets[other].registered) > Len(sockets[returned.handled.ws].registered)

\* The definitions registerTools builds for a list of descriptors
RECURSIVE Definitions(_, _)
Definitions(connectionId, tools) ==
    IF tools = << >> THEN << >>
    ELSE << WsToolDefinition(connectionId, Head(tools)) >>
         \o Definitions(connectionId, Tail(tools))

\* Every schema of the list compiles
Compiles(tools) ==
    \A i \in 1..Len(tools) : ~CompileThrows(DefaultedSchema(tools[i].inputSchema))

\* C14: on a connection that is not closed, a register_tools message whose
\* schemas compile never throws, whatever the connection has registered
\* before, and appends one entry per descriptor to the list of the connection,
\* so the list holds one entry for each descriptor of each successful
\* registration (two for a set registered twice); closing the connection
\* removes the list and the reference names of all its entries.
C14_ReRegistrationAppends ==
    /\ \A ws \in SocketIds :
          Receiving(ws) =>
              LET id == sockets[ws].id
                  existing == getToolsForConnection(toolsByConnection, id)
                  down == unregisterConnection(toolsByConnection, toolsByRef, id)
              IN  /\ existing = Definitions(id, sockets[ws].registered)
                  /\ \A tools \in WideDescriptorLists :
                        Compiles(tools) =>
                            LET reg == registerTools(toolsByConnection, toolsByRef, id, tools)
                            IN  /\ ~reg.threw
                                /\ reg.byConn[id] = existing \o Definitions(id, tools)
                  /\ id \notin DOMAIN down.byConn
                  /\ \A i \in 1..Len(existing) :
                        existing[i].referenceName \notin DOMAIN down.byRef
    /\ \A ws \in SocketIds :
          sockets[ws].closeFired => sockets[ws].id \notin DOMAIN toolsByConnection
    /\ returned.handled.type = "register_tools" =>
          \/ returned.sent = << >>
          \/ returned.sent[1].message.type = "error"
          \/ /\ returned.sent[1].message.type = "success"
             /\ returned.sent[1].message.body <= Len(sockets[returned.handled.ws].registered)

\* The same set was registered twice on a connection: the second message was
\* answered with success and the list holds two equal entries
C14_Witness ==
    /\ returned.handled.type = "register_tools"
    /\ returned.sent # << >>
    /\ returned.sent[1].message.type = "success"
    /\ LET ws == returned.handled.ws
       IN  /\ sockets[ws].registered = << AddTool, AddTool >>
           /\ Len(toolsByConnection[sockets[ws].id]) = 2
           /\ toolsByConnection[sockets[ws].id][1] = toolsByConnection[sockets[ws].id][2]

\* The step handled a message that is not valid JSON or has an unknown type
OtherHandled == returned'.handled.type \in OtherMessages

\* What the handler of such a message may do: nothing but write to its socket
OtherIsNoOp ==
    /\ sockets[returned'.handled.ws].id \in DOMAIN connections'
    /\ UNCHANGED << mcpRegistry, connections, connectionIdCounter, sockets, toolsByConnection,
                    toolsByRef, wsPendingCalls, wsCallCounter, calls, runs, sandboxes >>

\* The one error message such a message is answered with
OtherError ==
    << [ to |-> returned'.handled.ws,
         message |-> Message("error", IF returned'.handled.type = "invalid_json"
                                      THEN M_InvalidFormat ELSE M_UnknownType) ] >>

ReplyTypes(type) ==
    CASE type = "register_tools" -> { "success", "error" }
      [] type = "get_signatures" -> { "signatures", "error" }
      [] type = "execute_code" -> { "execution_result" }

\* C16: when the handler of a register_tools, get_signatures or execute_code
\* message ends, having succeeded or thrown, on a socket that is OPEN, it has
\* written exactly one message to that socket, of a type that answers the
\* message (success or error; signatures or error; execution_result), and the
\* connection is still in the connection table with its socket OPEN; on a
\* socket that was closed meanwhile it has written nothing.
C16_OneTypedReply ==
    returned.handled.type \in { "register_tools", "get_signatures", "execute_code" } =>
        IF sockets[returned.handled.ws].readyState = "OPEN"
        THEN /\ Len(returned.sent) = 1
             /\ returned.sent[1].to = returned.handled.ws
             /\ returned.sent[1].message.type \in ReplyTypes(returned.handled.type)
             /\ OpenConnection(returned.handled.ws)
             /\ returned.handled.type = "execute_code" =>
                   /\ returned.sent[1].message.body.executionId
                         = returned.finished.executionId
                   /\ returned.sent[1].message.body.error
                         = (returned.finished.promise = "rejected")
        ELSE returned.sent = << >>

\* The run of an execute_code message was rejected and its handler answered
\* with an execution_result
C16_Witness ==
    /\ returned.handled.type = "execute_code"
    /\ returned.finished.promise = "rejected"
    /\ Len(returned.sent) = 1
    /\ returned.sent[1].message.type = "execution_result"

\* C17: a socket whose close event has fired is CLOSED and stays so, and every
\* definition of the external registry, in the per-connection lists and in the
\* by-reference index, and every pending call is owned by a connection that is
\* in the connection table.
C17_NothingOutlivesItsConnection ==
    /\ \A ws \in SocketIds :
          sockets[ws].closeFired =>
              /\ sockets[ws].readyState = "CLOSED"
              /\ sockets[ws].id \notin DOMAIN connections
    /\ \A c \in DOMAIN toolsByConnection : c \in DOMAIN connections
    /\ \A e \in ListEntries : EntryAt(e).connectionId \in DOMAIN connections
    /\ \A callId \in DOMAIN wsPendingCalls :
          wsPendingCalls[callId].connectionId \in DOMAIN connections
    /\ \A ref \in DOMAIN toolsByRef : toolsByRef[ref].connectionId \in DOMAIN connections

\* C18: a run whose execution timer fired before its subprocess exited returns
\* success = false with the timeout marker at the end of its output; a run
\* whose subprocess exited first returns with its timer cancelled and without
\* the marker; the delay of the timer is the configured one, 30000 ms by default.
C18_TimeoutTerminatesAndFails ==
    LET run == returned.finished
    IN  run.promise = "fulfilled" =>
            /\ ~run.timer
            /\ run.delay \in { DEFAULT_TIMEOUT_MS } \cup { t.value : t \in { u \in TimeoutSettings : u.set } }
            /\ run.result.marker = run.timeoutText
            /\ run.timeoutText => ~run.result.success

\* C19: a run that has returned and had created its temporary file has deleted
\* it, or has tried to and swallowed the failure, whichever way it ended:
\* exit code zero or not, killed on timeout, write failure or spawn failure;
\* a failed deletion leaves the result as the exit code and the timer made it.
C19_TempFileAlwaysDeleted ==
    LET run == returned.finished
    IN  (run.pc = "returned" /\ run.file # "none") =>
            /\ run.file \in { "removed", "removeFailed" }
            /\ run.promise = "fulfilled" =>
                  run.result = [success |-> run.exitCode = 0, marker |-> run.timeoutText]

\* C20: every call of executeCode or executeCodeForConnection that has
\* completed was fulfilled with {success, output}, never rejected: a run whose
\* start failed and a run that timed out report success = false.
C20_NeverRejects ==
    LET run == returned.finished
    IN  run.pc = "returned" =>
            /\ run.promise = "fulfilled"
            /\ run.thrown = "none"
            /\ (run.timeoutText /\ run.exitCode # 0) => ~run.result.success

\* The introspection of a server fails: at connect, at the listing of its
\* tools, or while the definition of one of its tools is built
IntrospectionFails(serverConfig) ==
    \/ serverConfig.connect = "throws"
    \/ serverConfig.list = "throws"
    \/ \E k \in 1..Len(serverConfig.tools) :
          CompileThrows(DefaultedSchema(serverConfig.tools[k].inputSchema))

RECURSIVE AllDefinitions(_, _)
AllDefinitions(serverConfig, tools) ==
    IF tools = << >> THEN << >>
    ELSE << McpToolDefinition(serverConfig, Head(tools)) >>
         \o AllDefinitions(serverConfig, Tail(tools))

\* Every tool of each server that does not fail, nothing of a server that does
RECURSIVE ToolsOfSound(_, _)
ToolsOfSound(serverConfigs, upTo) ==
    IF upTo = 0 THEN << >>
    ELSE ToolsOfSound(serverConfigs, upTo - 1)
         \o ( IF IntrospectionFails(serverConfigs[upTo]) THEN << >>
              ELSE AllDefinitions(serverConfigs[upTo], serverConfigs[upTo].tools) )

\* C21: create works through the whole list of server configs, and after each
\* server the registry holds every tool of the servers so far whose
\* introspection did not fail, and no tool of a server whose introspection
\* failed at connect, at the listing, or at the building of a definition.
C21_FailingServerLeavesNoTools ==
    /\ mcpRegistry.next <= Len(mcpRegistry.configs) + 1
    /\ mcpRegistry.pc = "ready" => mcpRegistry.next \in { 1, Len(mcpRegistry.configs) + 1 }
    /\ mcpRegistry.pc # "closed" =>
          mcpRegistry.tools = ToolsOfSound(mcpRegistry.configs, mcpRegistry.next - 1)

\* C22: the callTool method never throws, and what it returns once it has
\* returned is a structured value: success with data, or failure with an error.
C22_AlwaysStructured ==
    /\ ~returned.threw
    /\ \A request \in RpcRequests : \A env \in RpcEnvs(request) :
          LET method == callToolMethod(request, env)
          IN  (~method.threw /\ method.out.response # NoReturn) =>
                    \/ method.out.response.success /\ method.out.response.error = "-"
                    \/ ~method.out.response.success /\ method.out.response.error # "-"
    /\ \A n \in 1..Len(calls) :
          calls[n].returns = 1 =>
              \/ calls[n].response.success /\ calls[n].response.error = "-"
              \/ ~calls[n].response.success /\ calls[n].response.error # "-"

\* The errors of each path of callTool
McpPathErrors == { E_McpNotFound, E_McpInvalid, E_McpThrew }
WsPathErrors == { E_NotConfigured, E_WsNotFound, E_WsInvalid, E_Unavailable, E_SendFailed }

\* C23: a request for a reference name the bridge holds from the MCP registry
\* takes the MCP path: it is answered by the MCP client call or by the MCP
\* guard, never by the external path, and registers no call; a request for a
\* reference name registered by a connection takes the external path: the MCP
\* client is not called and no error of the MCP path is returned.
C23_DispatchByOrigin ==
    \A request \in Requests({Anonymous}) : \A env \in Envs(request) :
        LET ref == request.toolRef
            out == handleToolCall(request, env)
        IN  /\ ref \in DOMAIN mcpTools =>
                  /\ out.response.error \notin WsPathErrors
                  /\ out.response.success => out.mcpCalled = ref
                  /\ out.calls = calls /\ out.pend = wsPendingCalls
            /\ ref \in DOMAIN toolsByRef =>
                  /\ out.mcpCalled = NoCall
                  /\ out.response.error \notin McpPathErrors

\* A call of the sandbox of run r to a tool of the run's own connection
OwnCall(r, n) ==
    /\ runs[r].ws # 0
    /\ calls[n].origin = runs[r].owner
    /\ calls[n].connectionId = runs[r].owner

\* C24: while the execute_code handler of a connection is suspended on its
\* run and a call of its sandbox to a tool of the connection is pending, the
\* socket of the connection still has its messages delivered, and a
\* tool_result for the call settles it with the payload received, so the
\* sandbox can go on to exit and the handler to send its execution_result.
C24_ResultDispatchedDuringRun ==
    \A r \in 1..Len(runs), n \in CallNos :
        (OwnCall(r, n) /\ calls[n].promise = "pending") =>
            /\ calls[n].ws = runs[r].ws
            /\ Receiving(calls[n].ws)
            /\ calls[n].callId \in DOMAIN wsPendingCalls
            /\ \A payload \in ResultPayloads :
                  LET st == resolveWsToolCall(Cur, calls[n].callId,
                                              payload.result, payload.error)
                  IN  /\ calls[n].callId \notin DOMAIN st.pend
                      /\ st.calls[n].response =
                            IF payload.error = "" THEN Success(payload.result)
                            ELSE Failure(payload.error)

\* The round trip has happened: a call of the sandbox of a connection to the
\* connection's own tool was sent, answered by a tool_result on the same
\* socket and resolved, then the sandbox exited with code 0 and the
\* execution_result reporting success was sent
C24_Witness ==
    /\ returned.handled.type = "execute_code"
    /\ Len(returned.sent) = 1
    /\ returned.sent[1].message.type = "execution_result"
    /\ returned.sent[1].message.body.success
    /\ ~returned.finished.timeoutText
    /\ \E n \in CallNos :
          /\ calls[n].origin = returned.finished.owner
          /\ calls[n].ws = returned.finished.ws
          /\ calls[n].delivered = 1
          /\ calls[n].first = "result"
          /\ calls[n].via = returned.finished.ws
          /\ calls[n].response.success

\* The execution timer of run r has fired, its delay being the shorter, and
\* the run is still in progress with call n of its sandbox unanswered
OutlivesItsTimeout(r, n) ==
    /\ runs[r].pc = "signalled"
    /\ runs[r].delay < calls[n].delay
    /\ calls[n].origin = runs[r].owner
    /\ calls[n].promise = "pending"

\* C25: once the execution timer of a run has fired, the shorter of the two,
\* the run ends before the timer of a call its sandbox is blocked on: no step
\* finds the run still in progress when that call reaches its own timeout.
C25_TighterTimeoutBounds ==
    [][ \A r \in 1..Len(runs), n \in CallNos :
            OutlivesItsTimeout(r, n) => calls'[n].first # "timeout" ]_vars

\* C26: every call that is pending is eventually settled, its callTool
\* returned and its entry gone from the pending map, whether or not a result
\* arrives or the connection closes, provided timers fire.
C26_NoCallPendingForever ==
    \A n \in 1..MaxLoad :
        (n <= Len(calls) /\ calls[n].promise = "pending")
            ~> ( /\ n <= Len(calls)
                 /\ calls[n].returns = 1
                 /\ calls[n].callId \notin DOMAIN wsPendingCalls )

\* A call that was sent, never answered, and ended by its own timer while its
\* connection is still open
C26_Witness ==
    \E n \in CallNos :
        /\ calls[n].delivered = 1
        /\ calls[n].first = "timeout"
        /\ calls[n].response = Failure(E_Timeout)
        /\ calls[n].callId \notin DOMAIN wsPendingCalls
        /\ OpenConnection(calls[n].ws)


\* C27: once disconnect has run, the disconnect of every client whose connect
\* succeeded was attempted, those that threw included, no client is connected
\* any more, and the registry holds no client and no tool in its tool list, in
\* its index by reference name or in its index by server.
C27_DisconnectClearsAll ==
    mcpRegistry.pc = "closed" =>
        /\ mcpRegistry.disconnectCalls =
              { i \in 1..Len(mcpRegistry.configs) : mcpRegistry.configs[i].connect = "ok" }
        /\ mcpRegistry.connected = {}
        /\ mcpRegistry.clients = {}
        /\ mcpRegistry.tools = << >>
        /\ mcpRegistry.toolsByRef = EmptyMap
        /\ mcpRegistry.toolsByServer = EmptyMap

\* a shutdown of a registry that held tools, where the first client threw and a
\* later one was still disconnected
C27_Witness ==
    /\ mcpRegistry.pc = "closed"
    /\ ToolsOfSound(mcpRegistry.configs, Len(mcpRegistry.configs)) # << >>
    /\ \E first, later \in mcpRegistry.disconnectCalls :
          /\ first < later
          /\ first \in mcpRegistry.disconnectThrew


\* The names of a filter parameter that was given
NamesOf(filter) == IF filter = Missing THEN {} ELSE { filter[k] : k \in 1..Len(filter) }

\* C28: a signature fetch with a non-empty serverNames or toolNames filter
\* returns signatures only of tools that belong to one of the named servers or
\* whose reference name is one of the named tools; a fetch with no filter
\* returns the signatures of all tools.
C28_FilterSelectsOnlyMatching ==
    returned.signatures.asked =>
        LET fetch == returned.signatures
            servers == NamesOf(fetch.serverNames)
            refs == NamesOf(fetch.toolNames)
        IN  IF servers = {} /\ refs = {}
            THEN fetch.filteredTools = mcpRegistry.tools
            ELSE \A g \in 1..Len(fetch.signatures) :
                     \A k \in 1..Len(fetch.signatures[g].tools) :
                         LET mcpTool == fetch.signatures[g].tools[k]
                         IN  \/ mcpTool.serverName \in servers
                             \/ mcpTool.cleanServerName \in servers
                             \/ mcpTool.referenceName \in refs


\* The value the priority gives for a text: parsed when it parses, else trimmed
ByPriority(text) ==
    IF IsJson(Characters[Trim(text)]) THEN JsonParse(Trim(text)) ELSE Trim(text)

\* C29: the data of a successful MCP call is the structured content when the
\* response has one; else the first text block parsed as JSON when it parses;
\* else that text trimmed; else, without a text block, the empty result.
C29_FixedPriority ==
    returned.mcpResponse.given =>
        LET response == returned.mcpResponse.response
            data == returned.response.data
            withText == { k \in 1..Len(response.content) :
                              "text" \in DOMAIN response.content[k] }
        IN  /\ returned.response.success
            /\ IF response.structuredContent # "undefined"
               THEN data = response.structuredContent
               ELSE IF withText = {} THEN data = "null"
               ELSE IF 1 \in withText THEN data = ByPriority(response.content[1].text)
               ELSE LET first == CHOOSE k \in withText : \A l \in withText : k <= l
                    IN  data \in { "null", ByPriority(response.content[first].text) }


\* C30: a register_tools request that fails and is answered with the error
\* reply leaves the registry exactly as it was before the request: no reference
\* name resolves afterwards that did not resolve before, and the tool lists of
\* the connections are unchanged.
C30_RegistrationAtomic ==
    [][ ( /\ returned'.handled.type = "register_tools"
          /\ \E k \in 1..Len(returned'.sent) :
                returned'.sent[k].message = Message("error", M_RegisterFailed) )
        => /\ toolsByRef' = toolsByRef
           /\ toolsByConnection' = toolsByConnection ]_vars


\* C31: in every reachable state the reference names of the by-reference
\* index are exactly the reference names of the definitions in the
\* per-connection lists, and no by-reference entry belongs to a connection
\* whose close was handled.
C31_IndicesAgree ==
    /\ DOMAIN toolsByRef = Listed
    /\ \A ws \in SocketIds :
          sockets[ws].closeFired =>
              \A ref \in DOMAIN toolsByRef : toolsByRef[ref].connectionId # sockets[ws].id


\* What the bridge and the server hold for the connection of socket ws
OwnedBy(ws, byConn, byRef, cs, pend, conns) ==
    LET id == sockets[ws].id
    IN  [ listed |-> id \in DOMAIN byConn,
          tools |-> getToolsForConnection(byConn, id),
          refs |-> { byRef[ref] : ref \in { r \in DOMAIN byRef : byRef[r].connectionId = id } },
          calls |-> { << n, cs[n] >> : n \in { k \in 1..Len(cs) : cs[k].connectionId = id } },
          pending |-> { << callId, pend[callId] >> :
                            callId \in { k \in DOMAIN pend : pend[k].connectionId = id } },
          entry |-> IF id \in DOMAIN conns THEN << conns[id] >> ELSE << >> ]

\* C32: the step that handles the close of connection A leaves every other
\* connection B as it was: B's registered tools in both indices, B's calls
\* with their timers, listeners and pending entries, and B's entry in the
\* connection table; and it leaves the MCP tools as they were.
C32_CloseLeavesOthersAlone ==
    [][ \A a \in 1..Len(sockets) :
            (~sockets[a].closeFired /\ sockets'[a].closeFired) =>
                /\ \A b \in 1..Len(sockets) \ {a} :
                      OwnedBy(b, toolsByConnection', toolsByRef', calls', wsPendingCalls',
                              connections')
                          = OwnedBy(b, toolsByConnection, toolsByRef, calls, wsPendingCalls,
                                    connections)
                /\ mcpRegistry' = mcpRegistry ]_vars

\* connection A closed while connection B had a tool and a call pending on
\* it, and B still has both, the timer and the listeners of the call included
C32_Witness ==
    \E a, b \in SocketIds :
        /\ a # b
        /\ sockets[a].closeFired
        /\ OpenConnection(b)
        /\ sockets[b].id \in DOMAIN connections
        /\ getToolsForConnection(toolsByConnection, sockets[b].id) # << >>
        /\ \E n \in CallNos :
              /\ calls[n].connectionId = sockets[b].id
              /\ calls[n].promise = "pending"
              /\ calls[n].timer /\ calls[n].onClose /\ calls[n].onError
              /\ calls[n].callId \in DOMAIN wsPendingCalls


\* C33: every call id the bridge has allocated differs from every other one,
\* pending or settled, and every connection id assigned differs from every
\* other one, open or closed; an entry of the pending map belongs to the call
\* that bears its id, so a tool_result for a settled call changes no call.
C33_IdentifiersNeverReused ==
    /\ \A m, n \in CallNos : m # n => calls[m].callId # calls[n].callId
    /\ \A a, b \in SocketIds : a # b => sockets[a].id # sockets[b].id
    /\ \A callId \in DOMAIN wsPendingCalls :
          /\ wsPendingCalls[callId].call \in CallNos
          /\ calls[wsPendingCalls[callId].call].callId = callId
          /\ calls[wsPendingCalls[callId].call].promise = "pending"
    /\ \A n \in CallNos :
          calls[n].promise # "pending" =>
              \A payload \in ResultPayloads :
                  resolveWsToolCall(Cur, calls[n].callId, payload.result, payload.error) = Cur

\* a call was settled and a newer one, allocated on the same connection after
\* it, is pending under another id
C33_Witness ==
    \E m, n \in CallNos :
        /\ m < n
        /\ calls[m].connectionId = calls[n].connectionId
        /\ calls[m].promise # "pending"
        /\ calls[n].promise = "pending"
        /\ calls[n].callId \in DOMAIN wsPendingCalls
        /\ calls[m].callId \notin DOMAIN wsPendingCalls


\* The execution_result messages among those a step wrote
ResultsSent(messages) ==
    { k \in 1..Len(messages) : messages[k].message.type = "execution_result" }

\* C34: the step that ends the handler of an execute_code message writes
\* exactly one execution_result, on the socket that sent the message and with
\* the executionId of the message, when that socket is open, and the run is
\* then over and cannot be answered again; no other step writes an
\* execution_result, whatever other runs are in progress.
C34_OneResultPerExecution ==
    [][ LET run == returned'.finished
            sent == returned'.sent
        IN  IF run # NoRun /\ run.ws # 0
            THEN /\ Len(runs') = Len(runs) - 1 \/ (runs' = runs /\ run.promise = "rejected")
                 /\ IF sockets[run.ws].readyState = "OPEN"
                    THEN /\ Len(sent) = 1
                         /\ sent[1].to = run.ws
                         /\ sent[1].message.type = "execution_result"
                         /\ sent[1].message.body.executionId = run.executionId
                    ELSE sent = << >>
            ELSE ResultsSent(sent) = {} ]_vars

\* a run of one connection was answered on its own socket with its own
\* executionId while a run of another connection, with another executionId,
\* is still in progress
C34_Witness ==
    /\ returned.finished # NoRun
    /\ returned.finished.promise = "fulfilled"
    /\ Len(returned.sent) = 1
    /\ returned.sent[1].to = returned.finished.ws
    /\ returned.sent[1].message.body.executionId = returned.finished.executionId
    /\ \E r \in 1..Len(runs) :
          /\ runs[r].ws # returned.finished.ws
          /\ runs[r].executionId # returned.finished.executionId
          /\ runs[r].pc = "running"


\* C35: a call that a tool_result settled is settled by its payload: rejected,
\* callTool returning success=false with the error text, when the result
\* carries an error; resolved, callTool returning success=true with the
\* result as data, when it does not.
C35_SettledPerPayload ==
    \A n \in CallNos :
        calls[n].first = "result" =>
            /\ calls[n].returns = 1
            /\ IF calls[n].payload.carriesError
               THEN /\ calls[n].promise = "rejected"
                    /\ calls[n].response = Failure(calls[n].payload.error)
               ELSE /\ calls[n].promise = "fulfilled"
                    /\ calls[n].response = Success(calls[n].payload.result)


\* C36: the step in which an error event reaches the pending calls of a
\* socket rejects every call pending on that socket's connection with the
\* connection-lost error and takes it out of the pending map, and leaves the
\* connection table, the sockets and both indices of registered tools as
\* they were; a later close, not the error, tears them down.
C36_ErrorRejectsCallsOnly ==
    [][ \A n \in CallNos :
            (calls[n].first = "none" /\ calls'[n].first = "error") =>
                /\ \A m \in CallNos :
                      (calls[m].connectionId = calls[n].connectionId
                           /\ calls[m].promise = "pending") =>
                          /\ calls'[m].promise = "rejected"
                          /\ calls'[m].response = Failure(E_Error)
                          /\ calls'[m].returns = 1
                          /\ calls[m].callId \notin DOMAIN wsPendingCalls'
                /\ connections' = connections
                /\ sockets' = sockets
                /\ toolsByConnection' = toolsByConnection
                /\ toolsByRef' = toolsByRef ]_vars

\* an error event rejected two calls pending on a connection that is still
\* open, in the connection table and with its tool registered
C36_Witness ==
    \E m, n \in CallNos :
        /\ m # n
        /\ calls[m].connectionId = calls[n].connectionId
        /\ calls[m].first = "error" /\ calls[n].first = "error"
        /\ calls[m].response = Failure(E_Error) /\ calls[n].response = Failure(E_Error)
        /\ OpenConnection(calls[n].ws)
        /\ getToolsForConnection(toolsByConnection, calls[n].connectionId) # << >>
        /\ calls[n].toolRef \in DOMAIN toolsByRef


\* C37: a call whose tool_call message could not be sent is settled once, by
\* the send failure: callTool has returned success=false with the send-failure
\* error, the timer is cleared, the close and error listeners are off the
\* socket, and the pending map has no entry for the call id, from the very
\* step of the send on.
C37_SendFailureSettlesAtOnce ==
    /\ \A n \in CallNos :
          calls[n].first = "send" =>
              /\ calls[n].sendCalls = 1 /\ calls[n].delivered = 0
              /\ calls[n].settled
              /\ calls[n].promise = "rejected"
              /\ calls[n].fnCalls = 1 /\ calls[n].returns = 1
              /\ calls[n].response = Failure(E_SendFailed)
              /\ ~calls[n].timer /\ ~calls[n].onClose /\ ~calls[n].onError
              /\ calls[n].callId \notin DOMAIN wsPendingCalls
    /\ \A request \in Requests({Anonymous}) : \A env \in Envs(request) :
          LET out == handleToolCall(request, env)
          IN  (out.counter # wsCallCounter /\ env.sendThrows) =>
                  /\ out.response = Failure(E_SendFailed)
                  /\ DOMAIN out.pend = DOMAIN wsPendingCalls

\* a send that threw on a connection that is open and has its tool, while an
\* earlier call of the same connection is still pending
C37_Witness ==
    \E m, n \in CallNos :
        /\ m < n
        /\ calls[n].first = "send"
        /\ calls[n].response = Failure(E_SendFailed)
        /\ OpenConnection(calls[n].ws)
        /\ calls[m].connectionId = calls[n].connectionId
        /\ calls[m].promise = "pending"
        /\ calls[m].callId \in DOMAIN wsPendingCalls


\* A run in progress whose requesting connection has closed
ClosedRun(r) ==
    /\ r <= Len(runs)
    /\ runs[r].ws # 0
    /\ sockets[runs[r].ws].closeFired

\* The close of a connection leaves the runs as they are, and a run that ends
\* after the close of its connection has exited, has removed its temporary
\* file or swallowed the failure, and writes nothing
ClosedRunStep ==
    /\ \A a \in 1..Len(sockets) :
          (~sockets[a].closeFired /\ sockets'[a].closeFired) =>
              runs' = runs /\ sandboxes' = sandboxes
    /\ LET run == returned'.finished
       IN  (run # NoRun /\ run.ws # 0 /\ sockets[run.ws].closeFired) =>
               /\ run.pc = "returned" /\ run.promise = "fulfilled"
               /\ run.exitCode \in {0, 1, 143}
               /\ run.file \in { "removed", "removeFailed" }
               /\ returned'.sent = << >>
               /\ returned'.handled = [ws |-> run.ws, type |-> "execute_code"]

\* A callTool of the sandbox of a closed connection for a tool of that
\* connection fails and creates no pending call
ClosedRunCalls ==
    \A r \in 1..Len(runs) :
        ClosedRun(r) =>
            \A request \in Requests({runs[r].owner}) :
                StartsWith(request.toolRef, generateNamespace(runs[r].owner) \o Dot) =>
                    \A env \in Envs(request) :
                        LET out == handleToolCall(request, env)
                        IN  /\ ~out.response.success
                            /\ out.calls = calls
                            /\ out.pend = wsPendingCalls
                            /\ out.counter = wsCallCounter

\* C38: the close of the requesting connection does not end a run in
\* progress; the run still ends, by the exit of its subprocess or by the
\* execution timeout, its temporary file is deleted, nothing is sent on the
\* closed socket and nothing escapes the handler, and a callTool of its
\* sandbox for a tool of the closed connection fails without a pending call.
C38_ClosedRunStillEnds ==
    /\ []ClosedRunCalls
    /\ [][ClosedRunStep]_vars
    /\ (\E r \in 1..MaxLoad : ClosedRun(r)) ~> ~(\E r \in 1..MaxLoad : ClosedRun(r))

====
